---- MODULE Spec2Model ----
(***************************************************************************)
(* Acquisition pipeline of the optical-grating measuring system:           *)
(*   - DataAcquisition  (orchestrator: run flag, worker thread, poll loop) *)
(*   - GratingChannel   (bounded sample history, alarms)                   *)
(*   - CommunicationManager (register reads)                               *)
(*   - QualityControl   (limit table, statistics, capability indices)      *)
(* Measured values are kept in hundredths (220.90 is 22090), which is the  *)
(* unit of the raw registers (processRawData divides a register by 100).   *)
(***************************************************************************)
EXTENDS Integers, Sequences, FiniteSets, TLC

(***************************************************************************)
(* Bounds of the model.                                                    *)
(***************************************************************************)
\* Capacity of a channel history.  The source sets 1000
\* (GratingChannel::MAX_MEASUREMENTS); the model keeps the comparison of the
\* code and scales the number.
MAX_MEASUREMENTS == 2

\* Number of channels initialize() constructs.  The source loops 1..5.
NumChannels == 2

\* Thread identities available to std::thread.
MaxWorkers == 2

\* The wall clock (milliseconds since the epoch) saturates here.
MaxClock == 2

\* Longest byte sequence given to calculateCRC16, apart from the reference
\* vectors.
MaxCrcLen == 3

\* Longest arbitrary response delivered by the serial line.
MaxFrameLen == 7

\* Largest register count of a read on an open port.
MaxRegCount == 2

\* Significand bits of the floating-point numbers (a double has 53).
Precision == 15

\* Longest history handed to GratingChannel::calculateCPK.
MaxCpkSamples == 11

\* Longest data set handed to QualityControl::calculateStatistics.
MaxDataLen == 3

(***************************************************************************)
(* Program constants.                                                      *)
(***************************************************************************)
DefaultInterval == 200      \* m_measurementInterval(200), ReadSlaveTimeInterval
DefaultRegAddress == 20     \* RegAddress default
DefaultRegCount == 2        \* RegCount default
LeftSlaveBase == 10         \* SlaveAddress default 10 + channelNum
RightSlaveBase == 20        \* SlaveAddress default 20 + channelNum

P1_UPPER == 22090           \* 220.90
P1_LOWER == 21910           \* 219.10
P5_UPPER == 42610           \* 426.10
P5_LOWER == 42390           \* 423.90

P1_NOMINAL == 22000         \* 220.0
P5_NOMINAL == 42500         \* 425.0
P3_NOMINAL == 64500         \* 645.0
P4_NOMINAL == 100           \* 1.0

\* calculateCRC16 and the Modbus request.
CRC_INIT == 65535

CRC_POLY == 40961

READ_HOLDING_REGISTERS == 3

\* Samples GratingChannel::calculateCPK asks for.
CpkMinSamples == 10

Abs(x) == IF x < 0 THEN -x ELSE x

Min(a, b) == IF a < b THEN a ELSE b

Channels == 1..NumChannels

WorkerIds == 1..MaxWorkers

(***************************************************************************)
(* Inputs.                                                                 *)
(***************************************************************************)
\* Words a slave may report in each register of a read.  The devices of the
\* left gratings (addresses up to RightSlaveBase) report a P1-like value, out
\* of tolerance on the odd addresses; the others report a P5-like value.
DeviceWords(slaveAddr) ==
    IF slaveAddr <= RightSlaveBase
    THEN {P1_NOMINAL + 100 * (slaveAddr % 2)}
    ELSE {P5_NOMINAL}

\* Elapsed time of one poll cycle, in milliseconds.
ElapsedValues == {100, 200, 300}

\* Draws of the normal distributions of generateSimulatedValue.
SimDraws(center) == {center}

RangeDraws == {-10}

RangeNames == {"P1_range", "P5U_range", "P5L_range", "P3_range", "P4_range"}

(***************************************************************************)
(* ConfigManager                                                           *)
(***************************************************************************)
getChannelConfig(channelNum) ==
    [leftGrating  |-> [slaveAddress |-> LeftSlaveBase + channelNum,
                       regAddress   |-> DefaultRegAddress,
                       regCount     |-> DefaultRegCount],
     rightGrating |-> [slaveAddress |-> RightSlaveBase + channelNum,
                       regAddress   |-> DefaultRegAddress,
                       regCount     |-> DefaultRegCount]]

(***************************************************************************)
(* MeasurementData                                                         *)
(***************************************************************************)
\* MeasurementData{} : value-initialised, every field zero.
ZeroData ==
    [p1_avg |-> 0, p1_range |-> 0, p5u_avg |-> 0, p5u_range |-> 0,
     p5l_avg |-> 0, p5l_range |-> 0, p3_avg |-> 0, p3_range |-> 0,
     p4_avg |-> 0, p4_range |-> 0, timestamp |-> 0]

(***************************************************************************)
(* CommunicationManager: checksum and request frame                        *)
(***************************************************************************)
\* a ^ b on naturals.
RECURSIVE BitXor(_, _)
BitXor(a, b) ==
    IF a = 0 THEN b
    ELSE IF b = 0 THEN a
    ELSE (((a % 2) + (b % 2)) % 2) + 2 * BitXor(a \div 2, b \div 2)

\* One turn of the inner loop of calculateCRC16, on the 16-bit crc.
CrcShift[crc \in 0..65535] ==
    IF crc % 2 = 1 THEN BitXor(crc \div 2, CRC_POLY) ELSE crc \div 2

\* n turns of the inner loop.
CrcShifts[crc \in 0..65535, n \in 0..8] ==
    IF n = 0 THEN crc ELSE CrcShifts[CrcShift[crc], n - 1]

\* The outer loop of calculateCRC16: the crc after the first n bytes of data,
\* starting from init.
RECURSIVE CrcBytes(_, _, _)
CrcBytes(init, data, n) ==
    IF n = 0 THEN init
    ELSE CrcShifts[BitXor(CrcBytes(init, data, n - 1), data[n]), 8]

\* Variant of calculateCRC16 that starts from a zero register.
calculateCRC16_ZeroInit(data) == CrcBytes(0, data, Len(data))

calculateCRC16(data) == CrcBytes(CRC_INIT, data, Len(data))

\* Variant of createModbusReadCommand that appends the checksum high byte
\* first.
createModbusReadCommand_CrcHighFirst(slaveAddr, regAddr, regCount) ==
    LET header == <<slaveAddr, READ_HOLDING_REGISTERS,
                    (regAddr \div 256) % 256, regAddr % 256,
                    (regCount \div 256) % 256, regCount % 256>>
        crc == calculateCRC16(header)
    IN header \o <<(crc \div 256) % 256, crc % 256>>

createModbusReadCommand(slaveAddr, regAddr, regCount) ==
    LET header == <<slaveAddr, READ_HOLDING_REGISTERS,
                    (regAddr \div 256) % 256, regAddr % 256,
                    (regCount \div 256) % 256, regCount % 256>>
        crc == calculateCRC16(header)
    IN header \o <<crc % 256, (crc \div 256) % 256>>

(***************************************************************************)
(* CommunicationManager::readHoldingRegisters: the set of results a call   *)
(* can return.  Disconnected: the synthetic ramp.  Connected: an empty     *)
(* vector (no response, or a response that fails validation) or regCount   *)
(* registers decoded from the response.                                    *)
(***************************************************************************)
\* Variant of readHoldingRegisters whose synthetic values are not reduced to
\* 16 bits.
readHoldingRegisters_NoWrap(isConnected, slaveAddr, regAddr, regCount) ==
    IF ~isConnected
    THEN {[i \in 1..regCount |-> 22000 + (i - 1) * 100]}
    ELSE {<<>>} \cup {[i \in 1..regCount |-> w] : w \in DeviceWords(slaveAddr)}

readHoldingRegisters(isConnected, slaveAddr, regAddr, regCount) ==
    IF ~isConnected
    THEN {[i \in 1..regCount |-> (22000 + (i - 1) * 100) % 65536]}
    ELSE {<<>>} \cup {[i \in 1..regCount |-> w] : w \in DeviceWords(slaveAddr)}

(***************************************************************************)
(* CommunicationManager: the connected path of readHoldingRegisters, byte  *)
(* by byte.  io is what the serial line does with one command: WriteFile   *)
(* and ReadFile succeed or fail, and ReadFile delivers io.bytes.           *)
(***************************************************************************)
\* sendModbusCommand: the result and the response vector.
sendModbusCommand(isConnected, io) ==
    IF ~isConnected \/ ~io.written \/ ~io.read
    THEN [ok |-> FALSE, response |-> <<>>]
    ELSE [ok |-> Len(io.bytes) > 0, response |-> io.bytes]

\* What a read past the end of the response vector can yield.
GarbageBytes == {0, 255}

\* response[k] as the code indexes it, from 0: the byte received, or
\* whatever lies behind the vector when k is out of range.
ByteAt(response, k) ==
    IF k < Len(response) THEN {response[k + 1]} ELSE GarbageBytes

\* (response[3 + i * 2] << 8) | response[4 + i * 2]
RegisterAt(response, i) ==
    {hi * 256 + lo : hi \in ByteAt(response, 3 + i * 2),
                     lo \in ByteAt(response, 4 + i * 2)}

\* The decoding loop: the vectors it can build.
DecodeRegisters(response, regCount) ==
    {r \in [1..regCount -> UNION {RegisterAt(response, i) : i \in 0..(regCount - 1)}] :
        \A i \in 1..regCount : r[i] \in RegisterAt(response, i - 1)}

\* Lines 213-228: the results of a call on an open port whose line does io.
readHoldingRegistersOver(io, regCount) ==
    LET sent == sendModbusCommand(TRUE, io)
        response == sent.response
    IN IF sent.ok /\ Len(response) >= 5 /\ response[2] = READ_HOLDING_REGISTERS
       THEN IF Len(response) >= 3 + response[3] + 2
            THEN DecodeRegisters(response, regCount)
            ELSE {<<>>}
       ELSE {<<>>}

(***************************************************************************)
(* CommunicationManager: the port.  A handle is TRUE when it is not        *)
(* INVALID_HANDLE_VALUE; api tells which Win32 calls succeed.              *)
(***************************************************************************)
isConnected(m_serialHandle) == m_serialHandle

closeSerial(m_serialHandle) == FALSE

\* Variant of initializeSerial whose failure paths return without
\* closeSerial().
initializeSerial_NoClose(api) ==
    IF ~api.createFile THEN [ret |-> FALSE, m_serialHandle |-> FALSE]
    ELSE IF ~api.getCommState \/ ~api.setCommState \/ ~api.setCommTimeouts
    THEN [ret |-> FALSE, m_serialHandle |-> TRUE]
    ELSE [ret |-> TRUE, m_serialHandle |-> TRUE]

\* initializeSerial: the value returned and the handle left behind.
initializeSerial(api) ==
    IF ~api.createFile THEN [ret |-> FALSE, m_serialHandle |-> FALSE]
    ELSE IF ~api.getCommState \/ ~api.setCommState \/ ~api.setCommTimeouts
    THEN [ret |-> FALSE, m_serialHandle |-> closeSerial(TRUE)]
    ELSE [ret |-> TRUE, m_serialHandle |-> TRUE]

\* The ways the Win32 calls of initializeSerial can turn out.
SerialApi ==
    [createFile : BOOLEAN, getCommState : BOOLEAN, setCommState : BOOLEAN,
     setCommTimeouts : BOOLEAN]

(***************************************************************************)
(* GratingChannel                                                          *)
(***************************************************************************)
\* The values generateSimulatedValue(parameter) can return.
generateSimulatedValue(parameter) ==
    IF parameter = "P1" THEN SimDraws(P1_NOMINAL)
    ELSE IF parameter = "P5U" \/ parameter = "P5L" THEN SimDraws(P5_NOMINAL)
    ELSE IF parameter = "P3" THEN SimDraws(P3_NOMINAL)
    ELSE IF parameter = "P4" THEN SimDraws(P4_NOMINAL)
    ELSE IF parameter \in RangeNames THEN {Abs(d) : d \in RangeDraws}
    ELSE {0}

\* The samples the disconnected branch of readGratingData can build at time ts.
SimulatedData(ts) ==
    {[p1_avg |-> a1, p1_range |-> Abs(r1),
      p5u_avg |-> a2, p5u_range |-> Abs(r2),
      p5l_avg |-> a3, p5l_range |-> Abs(r3),
      p3_avg |-> a4, p3_range |-> Abs(r4),
      p4_avg |-> a5, p4_range |-> Abs(r5),
      timestamp |-> ts] :
        a1 \in generateSimulatedValue("P1"),
        r1 \in generateSimulatedValue("P1_range"),
        a2 \in generateSimulatedValue("P5U"),
        r2 \in generateSimulatedValue("P5U_range"),
        a3 \in generateSimulatedValue("P5L"),
        r3 \in generateSimulatedValue("P5L_range"),
        a4 \in generateSimulatedValue("P3"),
        r4 \in generateSimulatedValue("P3_range"),
        a5 \in generateSimulatedValue("P4"),
        r5 \in generateSimulatedValue("P4_range")}

\* processRawData, for non-empty blocks (its only caller passes no other).
processRawData(leftData, rightData, ts) ==
    LET p1  == leftData[1]
        p5u == IF Len(leftData) > 1 THEN leftData[2] ELSE P5_NOMINAL
        p5l == rightData[1]
        p3  == IF Len(rightData) > 1 THEN rightData[2] ELSE P3_NOMINAL
        p4  == P4_NOMINAL
    IN [p1_avg |-> p1,   p1_range |-> Abs(p1 - P1_NOMINAL) \div 10,
        p5u_avg |-> p5u, p5u_range |-> Abs(p5u - P5_NOMINAL) \div 10,
        p5l_avg |-> p5l, p5l_range |-> Abs(p5l - P5_NOMINAL) \div 10,
        p3_avg |-> p3,   p3_range |-> Abs(p3 - P3_NOMINAL) \div 10,
        p4_avg |-> p4,   p4_range |-> Abs(p4 - P4_NOMINAL) \div 10,
        timestamp |-> ts]

\* Variant of getLatestMeasurement that returns front() in place of back().
getLatestMeasurement_Oldest(measurements) ==
    IF measurements # <<>> THEN measurements[1] ELSE ZeroData

\* getLatestMeasurement on a history.
getLatestMeasurement(measurements) ==
    IF measurements # <<>> THEN measurements[Len(measurements)] ELSE ZeroData

\* Variant of getMeasurementHistory that copies from begin() in place of
\* end() - count.
getMeasurementHistory_Oldest(measurements, count) ==
    IF Len(measurements) <= count
    THEN measurements
    ELSE SubSeq(measurements, 1, count)

\* getMeasurementHistory(count) on a history, count >= 0.
getMeasurementHistory(measurements, count) ==
    IF Len(measurements) <= count
    THEN measurements
    ELSE SubSeq(measurements, Len(measurements) - count + 1, Len(measurements))

Alarm(channelNum, parameter, direction) ==
    [channel |-> channelNum, parameter |-> parameter, direction |-> direction]

\* Variant of AlarmCheck that also reports a value equal to a limit.
AlarmCheck_Inclusive(channelNum, parameter, value, upper, lower) ==
    IF value >= upper THEN <<Alarm(channelNum, parameter, "upper")>>
    ELSE IF value <= lower THEN <<Alarm(channelNum, parameter, "lower")>>
    ELSE <<>>

\* One parameter's check in checkAlarms.
AlarmCheck(channelNum, parameter, value, upper, lower) ==
    IF value > upper THEN <<Alarm(channelNum, parameter, "upper")>>
    ELSE IF value < lower THEN <<Alarm(channelNum, parameter, "lower")>>
    ELSE <<>>

\* checkAlarms on a history.
checkAlarms(channelNum, measurements) ==
    IF measurements = <<>> THEN <<>>
    ELSE LET latest == measurements[Len(measurements)]
         IN AlarmCheck(channelNum, "P1", latest.p1_avg, P1_UPPER, P1_LOWER)
            \o AlarmCheck(channelNum, "P5U", latest.p5u_avg, P5_UPPER, P5_LOWER)
            \o AlarmCheck(channelNum, "P5L", latest.p5l_avg, P5_UPPER, P5_LOWER)

(***************************************************************************)
(* double arithmetic.  A double is modelled by a binary floating-point     *)
(* number with a significand of Precision bits whose smallest spacing is   *)
(* one hundredth: every operation yields the representable number nearest  *)
(* to the exact result, ties going to the even significand.                *)
(***************************************************************************)
\* The spacing of the representable numbers around the magnitude m >= 0.
RECURSIVE Ulp(_)
Ulp(m) == IF m < 2^Precision THEN 1 ELSE 2 * Ulp(m \div 2)

\* The double nearest to num / den, den > 0.
Nearest(num, den) ==
    LET a     == Abs(num)
        u     == Ulp(a \div den)
        lo    == (a \div (den * u)) * u
        twice == 2 * (a - lo * den)
        r     == IF twice < den * u THEN lo
                 ELSE IF twice > den * u THEN lo + u
                 ELSE IF (lo \div u) % 2 = 0 THEN lo ELSE lo + u
    IN IF num < 0 THEN 0 - r ELSE r

\* std::accumulate(first, last, init) over doubles.
RECURSIVE accumulate(_, _)
accumulate(data, init) ==
    IF data = <<>> THEN init
    ELSE accumulate(Tail(data), Nearest(init + Head(data), 1))

\* The loop `variance += (value - mean) * (value - mean)`.
RECURSIVE SumOfSquares(_, _, _)
SumOfSquares(data, mean, variance) ==
    IF data = <<>> THEN variance
    ELSE LET d == Nearest(Head(data) - mean, 1)
         IN SumOfSquares(Tail(data), mean,
                         Nearest(variance + Nearest(d * d, 1), 1))

RECURSIVE Gcd(_, _)
Gcd(a, b) == IF b = 0 THEN a ELSE Gcd(b, a % b)

\* std::sqrt(variance / dof), dof > 0.  The quotient is kept as a fraction in
\* lowest terms: the division and the root round monotonically, so equal
\* fractions are equal doubles, and the root is 0.0 only for a variance of 0.
Sqrt(variance, dof) ==
    IF variance = 0 THEN [num |-> 0, den |-> 1]
    ELSE LET g == Gcd(variance, dof)
         IN [num |-> variance \div g, den |-> dof \div g]

ZeroDeviation == Sqrt(0, 1)

\* The double 0.0 as a capability index.
ZeroIndex == [num |-> 0, times |-> 0, stddev |-> ZeroDeviation]

\* num / (times * stddev) for stddev # 0.0: 0.0 exactly when num is.
Quotient(num, times, stddev) ==
    IF num = 0 THEN ZeroIndex
    ELSE [num |-> num, times |-> times, stddev |-> stddev]

Mean(data) == Nearest(accumulate(data, 0), Len(data))

StdDev(data) == Sqrt(SumOfSquares(data, Mean(data), 0), Len(data) - 1)

(***************************************************************************)
(* GratingChannel::calculateCPK                                            *)
(***************************************************************************)
\* The values calculateCPK collects from the history for a parameter name.
CollectValues(measurements, parameter) ==
    IF parameter = "P1" THEN [i \in 1..Len(measurements) |-> measurements[i].p1_avg]
    ELSE IF parameter = "P5U" THEN [i \in 1..Len(measurements) |-> measurements[i].p5u_avg]
    ELSE IF parameter = "P5L" THEN [i \in 1..Len(measurements) |-> measurements[i].p5l_avg]
    ELSE IF parameter = "P3" THEN [i \in 1..Len(measurements) |-> measurements[i].p3_avg]
    ELSE IF parameter = "P4" THEN [i \in 1..Len(measurements) |-> measurements[i].p4_avg]
    ELSE <<>>

\* The specification limits calculateCPK holds for a parameter name.
SpecLimits(parameter) ==
    IF parameter = "P1" THEN [lsl |-> Nearest(21910, 1), usl |-> Nearest(22090, 1)]
    ELSE IF parameter \in {"P5U", "P5L"}
         THEN [lsl |-> Nearest(42390, 1), usl |-> Nearest(42610, 1)]
    ELSE IF parameter = "P3" THEN [lsl |-> Nearest(64300, 1), usl |-> Nearest(64700, 1)]
    ELSE IF parameter = "P4" THEN [lsl |-> Nearest(50, 1), usl |-> Nearest(150, 1)]
    ELSE [lsl |-> 0, usl |-> 0]

\* Variant of GratingChannel_calculateCPK that takes the statistics over the
\* newest CpkMinSamples samples only.
GratingChannel_calculateCPK_Window(measurements, parameter) ==
    IF Len(measurements) < CpkMinSamples THEN ZeroIndex
    ELSE LET values == CollectValues(SubSeq(measurements,
                                            Len(measurements) - CpkMinSamples + 1,
                                            Len(measurements)), parameter)
         IN IF values = <<>> THEN ZeroIndex
            ELSE LET mean   == Mean(values)
                     stddev == StdDev(values)
                     limits == SpecLimits(parameter)
                 IN IF stddev = ZeroDeviation THEN ZeroIndex
                    ELSE Quotient(Min(Nearest(limits.usl - mean, 1),
                                      Nearest(mean - limits.lsl, 1)), 3, stddev)

\* GratingChannel::calculateCPK(parameter) on a history.  cpu and cpl share
\* their positive divisor, so the smaller quotient has the smaller dividend.
GratingChannel_calculateCPK(measurements, parameter) ==
    IF Len(measurements) < CpkMinSamples THEN ZeroIndex
    ELSE LET values == CollectValues(measurements, parameter)
         IN IF values = <<>> THEN ZeroIndex
            ELSE LET mean   == Mean(values)
                     stddev == StdDev(values)
                     limits == SpecLimits(parameter)
                 IN IF stddev = ZeroDeviation THEN ZeroIndex
                    ELSE Quotient(Min(Nearest(limits.usl - mean, 1),
                                      Nearest(mean - limits.lsl, 1)), 3, stddev)

(***************************************************************************)
(* QualityControl                                                          *)
(***************************************************************************)
\* A CPKLimits value from its literals, in hundredths.
CPKLimits(lower, upper, target, warning, alarm) ==
    [upperSpecLimit |-> Nearest(upper, 1), lowerSpecLimit |-> Nearest(lower, 1),
     targetValue |-> Nearest(target, 1), warningLimit |-> Nearest(warning, 1),
     alarmLimit |-> Nearest(alarm, 1)]

\* m_cpkLimits after initializeDefaultLimits() in the constructor.
initializeDefaultLimits ==
    [p \in {"P1", "P5U", "P5L", "P3", "P4"} |->
        IF p = "P1" THEN CPKLimits(21910, 22090, 22000, 133, 100)
        ELSE IF p \in {"P5U", "P5L"} THEN CPKLimits(42390, 42610, 42500, 133, 100)
        ELSE IF p = "P3" THEN CPKLimits(64300, 64700, 64500, 133, 100)
        ELSE CPKLimits(50, 150, 100, 133, 100)]

\* Variant of setCPKLimits that keeps the limits a name already has, as
\* std::map::insert does.
setCPKLimits_KeepFirst(m_cpkLimits, parameter, limits) ==
    [p \in DOMAIN m_cpkLimits \cup {parameter} |->
        IF p \in DOMAIN m_cpkLimits THEN m_cpkLimits[p] ELSE limits]

\* m_cpkLimits after setCPKLimits(parameter, limits).
setCPKLimits(m_cpkLimits, parameter, limits) ==
    [p \in DOMAIN m_cpkLimits \cup {parameter} |->
        IF p = parameter THEN limits ELSE m_cpkLimits[p]]

\* getCPKLimits(parameter): find(), and a literal for a name not found.
getCPKLimits(m_cpkLimits, parameter) ==
    IF parameter \in DOMAIN m_cpkLimits
    THEN m_cpkLimits[parameter]
    ELSE CPKLimits(0, 0, 0, 133, 100)

\* Variant of calculateCPK with the deviation of a population: the sum of
\* squares over size() in place of size() - 1.
calculateCPK_Population(data, lsl, usl) ==
    IF Len(data) < 2 THEN ZeroIndex
    ELSE LET mean   == Mean(data)
             stddev == Sqrt(SumOfSquares(data, mean, 0), Len(data))
         IN IF stddev = ZeroDeviation THEN ZeroIndex
            ELSE Quotient(Min(Nearest(usl - mean, 1), Nearest(mean - lsl, 1)),
                          3, stddev)

\* QualityControl::calculateCPK(data, lsl, usl).
calculateCPK(data, lsl, usl) ==
    IF Len(data) < 2 THEN ZeroIndex
    ELSE LET mean   == Mean(data)
             stddev == StdDev(data)
         IN IF stddev = ZeroDeviation THEN ZeroIndex
            ELSE Quotient(Min(Nearest(usl - mean, 1), Nearest(mean - lsl, 1)),
                          3, stddev)

\* QualityControl::calculateCP(data, lsl, usl).
calculateCP(data, lsl, usl) ==
    IF Len(data) < 2 THEN ZeroIndex
    ELSE LET stddev == StdDev(data)
         IN IF stddev = ZeroDeviation THEN ZeroIndex
            ELSE Quotient(Nearest(usl - lsl, 1), 6, stddev)

\* StatisticsData{}.
ZeroStatistics ==
    [mean |-> 0, stddev |-> ZeroDeviation, cpk |-> ZeroIndex, cp |-> ZeroIndex,
     sampleCount |-> 0, minValue |-> 0, maxValue |-> 0, range |-> 0]

MinElement(data) == CHOOSE v \in {data[i] : i \in DOMAIN data} : \A i \in DOMAIN data : v <= data[i]

MaxElement(data) == CHOOSE v \in {data[i] : i \in DOMAIN data} : \A i \in DOMAIN data : v >= data[i]

\* calculateStatistics(data, parameter) under the limit table m_cpkLimits.
calculateStatistics(m_cpkLimits, data, parameter) ==
    IF data = <<>> THEN ZeroStatistics
    ELSE LET limits  == getCPKLimits(m_cpkLimits, parameter)
             differ  == limits.upperSpecLimit # limits.lowerSpecLimit
         IN [mean        |-> Mean(data),
             stddev      |-> IF Len(data) > 1 THEN StdDev(data) ELSE ZeroDeviation,
             cpk         |-> IF differ
                             THEN calculateCPK(data, limits.lowerSpecLimit,
                                               limits.upperSpecLimit)
                             ELSE ZeroIndex,
             cp          |-> IF differ
                             THEN calculateCP(data, limits.lowerSpecLimit,
                                              limits.upperSpecLimit)
                             ELSE ZeroIndex,
             sampleCount |-> Len(data),
             minValue    |-> MinElement(data),
             maxValue    |-> MaxElement(data),
             range       |-> Nearest(MaxElement(data) - MinElement(data), 1)]

\* Variant of getQualityStatus whose thresholds are exclusive.
getQualityStatus_Exclusive(cpk) ==
    IF cpk > 167 THEN "Excellent"
    ELSE IF cpk > 133 THEN "Good"
    ELSE IF cpk > 100 THEN "Acceptable"
    ELSE "NeedsImprovement"

\* getQualityStatus(cpk), cpk in hundredths.  The four labels of the source
\* are written by their meaning.
getQualityStatus(cpk) ==
    IF cpk >= 167 THEN "Excellent"
    ELSE IF cpk >= 133 THEN "Good"
    ELSE IF cpk >= 100 THEN "Acceptable"
    ELSE "NeedsImprovement"

\* Variant of updateStatistics that replaces the channel's whole map by the
\* new entry.
updateStatistics_ReplaceChannel(m_channelStatistics, m_cpkLimits, channelNum, parameter, data) ==
    [c \in DOMAIN m_channelStatistics \cup {channelNum} |->
        IF c = channelNum
        THEN [p \in {parameter} |-> calculateStatistics(m_cpkLimits, data, parameter)]
        ELSE m_channelStatistics[c]]

\* m_channelStatistics after updateStatistics(channelNum, parameter, data):
\* operator[] creates the channel's map and the entry when absent.
updateStatistics(m_channelStatistics, m_cpkLimits, channelNum, parameter, data) ==
    LET old == IF channelNum \in DOMAIN m_channelStatistics
               THEN m_channelStatistics[channelNum] ELSE <<>>
        new == [p \in DOMAIN old \cup {parameter} |->
                   IF p = parameter
                   THEN calculateStatistics(m_cpkLimits, data, parameter)
                   ELSE old[p]]
    IN [c \in DOMAIN m_channelStatistics \cup {channelNum} |->
           IF c = channelNum THEN new ELSE m_channelStatistics[c]]

\* getChannelStatistics(channelNum, parameter): two find() calls.
getChannelStatistics(m_channelStatistics, channelNum, parameter) ==
    IF /\ channelNum \in DOMAIN m_channelStatistics
       /\ parameter \in DOMAIN m_channelStatistics[channelNum]
    THEN m_channelStatistics[channelNum][parameter]
    ELSE ZeroStatistics

(***************************************************************************)
(* DataAcquisition::initialize                                             *)
(***************************************************************************)
\* Variant of initializeFrom that gives up on the first configuration that
\* fails to load: the channels before it, and no more.
initializeFrom_StopAtFirstFailure(api, throwing) ==
    LET built == {i \in Channels : \A j \in 1..i : j \notin throwing}
    IN [ret                   |-> built # {},
        connected             |-> isConnected(initializeSerial(api).m_serialHandle),
        m_channels            |-> built,
        m_measurementInterval |-> DefaultInterval]

\* What initialize() returns and leaves in the object when the serial API
\* behaves as api and getChannelConfig throws for the channels in throwing.
initializeFrom(api, throwing) ==
    LET built == {i \in Channels : i \notin throwing}
    IN [ret                   |-> built # {},
        connected             |-> isConnected(initializeSerial(api).m_serialHandle),
        m_channels            |-> built,
        m_measurementInterval |-> DefaultInterval]

(***************************************************************************)
(* State                                                                   *)
(***************************************************************************)
VARIABLES
    initialized,            \* initialize() has run
    connected,              \* CommunicationManager::isConnected()
    m_channels,             \* keys of DataAcquisition::m_channels
    m_measurements,         \* GratingChannel::m_measurements, per channel
    m_measurementInterval,  \* DataAcquisition::m_measurementInterval
    m_measurementCallback,  \* TRUE when a measurement callback is registered
    m_alarmCallback,        \* TRUE when an alarm callback is registered
    m_running,              \* DataAcquisition::m_running
    m_measurementThread,    \* DataAcquisition::m_measurementThread
    workers,                \* the threads running measurementLoop
    ctl,                    \* the controlling thread: position in its call
    clock,                  \* system_clock, milliseconds
    cycleLog,               \* what the current poll cycle did, in order
    reader,                 \* what a monitoring thread last read
    call,                   \* a single call under examination: operation, arguments, result
    m_cpkLimits,            \* QualityControl::m_cpkLimits
    m_channelStatistics,    \* QualityControl::m_channelStatistics
    starters,               \* threads calling startMeasurement(): position in the call
    released                \* what ~DataAcquisition() has deleted

vars == <<initialized, connected, m_channels, m_measurements,
          m_measurementInterval, m_measurementCallback, m_alarmCallback,
          m_running, m_measurementThread, workers, ctl, clock, cycleLog,
          reader, call, m_cpkLimits, m_channelStatistics, starters, released>>

objectVars == <<starters, released>>

qualityVars == <<m_cpkLimits, m_channelStatistics>>

configVars == <<initialized, connected, m_channels, m_measurementInterval>>

callbackVars == <<m_measurementCallback, m_alarmCallback>>

threadVars == <<m_running, m_measurementThread, workers>>

\* A thread slot that runs nothing.
NoWorker ==
    [pc |-> "none", it |-> 0, leftData |-> <<>>, rightData |-> <<>>,
     data |-> ZeroData, ok |-> FALSE, alarms |-> <<>>, elapsed |-> 0, sleepFor |-> 0,
     entry |-> <<>>]

\* A worker is live from its creation until measurementLoop returns.
Live(w) == workers[w].pc \notin {"none", "exited"}

LiveWorkers == {w \in WorkerIds : Live(w)}

Event(kind, channel, ok, data, msg) ==
    [kind |-> kind, channel |-> channel, ok |-> ok, data |-> data, msg |-> msg]

NoAlarm == Alarm(0, "", "")

\* Variant of NextChannel that walks the keys in descending order, as a
\* container without ascending key order could.
NextChannel_Descending(c) ==
    IF c = 0
    THEN IF m_channels = {} THEN 0
         ELSE CHOOSE k \in m_channels : \A j \in m_channels : j <= k
    ELSE IF \E k \in m_channels : k < c
         THEN CHOOSE k \in m_channels : k < c /\ \A j \in m_channels : j < c => j <= k
         ELSE 0

\* std::map iteration: the smallest key above c, 0 for end().
NextChannel(c) ==
    IF \E k \in m_channels : k > c
    THEN CHOOSE k \in m_channels : k > c /\ \A j \in m_channels : j > c => k <= j
    ELSE 0

Tick == IF clock < MaxClock THEN clock + 1 ELSE clock

\* No call is under examination.
NoCall == [op |-> "none", done |-> FALSE]

\* The state after construction of DataAcquisition, its members and the
\* QualityControl object.
\* The threads that may call startMeasurement() at the same time.
Starters == {1, 2}

\* ~DataAcquisition() has deleted neither a channel nor the transport.
NothingReleased == [channels |-> {}, m_commManager |-> FALSE]

Constructed ==
    /\ initialized = FALSE
    /\ connected = FALSE
    /\ m_channels = {}
    /\ m_measurements = [c \in Channels |-> <<>>]
    /\ m_measurementInterval = DefaultInterval
    /\ m_measurementCallback = FALSE
    /\ m_alarmCallback = FALSE
    /\ m_running = FALSE
    /\ m_measurementThread = [id |-> 0, joinable |-> FALSE]
    /\ workers = [w \in WorkerIds |-> NoWorker]
    /\ ctl = [pc |-> "ready"]
    /\ clock = 0
    /\ cycleLog = <<>>
    /\ reader = [history |-> <<>>, latest |-> ZeroData]
    /\ m_cpkLimits = initializeDefaultLimits
    /\ m_channelStatistics = <<>>
    /\ starters = [t \in Starters |-> "idle"]
    /\ released = NothingReleased

Init == Constructed /\ call = NoCall

\* A call returns to the controlling thread.
Return == ctl' = [pc |-> "ready"]

(***************************************************************************)
(* DataAcquisition: operations of the controlling thread                   *)
(***************************************************************************)
\* initialize(): opening the port succeeds or fails and the loop goes on
\* either way; a channel is constructed unless loading its configuration
\* throws, which the catch-all turns into `continue`.  The caller runs it
\* once, while no worker polls.
initialize ==
    /\ ctl.pc = "ready"
    /\ ~initialized
    /\ ~m_running
    /\ initialized' = TRUE
    /\ \E api \in SerialApi, throwing \in SUBSET Channels :
          LET done == initializeFrom(api, throwing)
          IN /\ connected' = done.connected
             /\ m_channels' = done.m_channels
             /\ m_measurementInterval' = done.m_measurementInterval
    /\ Return
    /\ UNCHANGED <<objectVars, qualityVars, m_measurements, callbackVars, threadVars, clock,
                   cycleLog, reader, call>>

\* The callbacks are plain std::function members: the caller registers them
\* while no worker polls.
setMeasurementCallback ==
    /\ ctl.pc = "ready"
    /\ ~m_running
    /\ ~m_measurementCallback
    /\ m_measurementCallback' = TRUE
    /\ Return
    /\ UNCHANGED <<objectVars, qualityVars, configVars, m_measurements, m_alarmCallback, threadVars,
                   clock, cycleLog, reader, call>>

setAlarmCallback ==
    /\ ctl.pc = "ready"
    /\ ~m_running
    /\ ~m_alarmCallback
    /\ m_alarmCallback' = TRUE
    /\ Return
    /\ UNCHANGED <<objectVars, qualityVars, configVars, m_measurements, m_measurementCallback, threadVars,
                   clock, cycleLog, reader, call>>

\* Variant of startMeasurement without the test of the flag.
startMeasurement_NoTest ==
    /\ ctl.pc = "ready"
    /\ m_running' = TRUE
    /\ ctl' = [pc |-> "spawn"]
    /\ UNCHANGED <<objectVars, qualityVars, configVars, m_measurements, callbackVars, m_measurementThread,
                   workers, clock, cycleLog, reader, call>>

\* startMeasurement(), line 50-51: test the flag and set it.
startMeasurement ==
    /\ ctl.pc = "ready"
    /\ IF ~m_running
       THEN /\ m_running' = TRUE
            /\ ctl' = [pc |-> "spawn"]
       ELSE /\ m_running' = m_running
            /\ Return
    /\ UNCHANGED <<objectVars, qualityVars, configVars, m_measurements, callbackVars, m_measurementThread,
                   workers, clock, cycleLog, reader, call>>

\* Variant of SpawnWorker that starts every run on empty histories.
SpawnWorker_FreshHistories ==
    /\ ctl.pc = "spawn"
    /\ \E w \in WorkerIds :
          /\ workers[w].pc = "none"
          /\ \A v \in WorkerIds : v < w => workers[v].pc # "none"
          /\ workers' = [workers EXCEPT ![w] = [NoWorker EXCEPT !.pc = "loopTop"]]
          /\ m_measurementThread' = [id |-> w, joinable |-> TRUE]
    /\ m_measurements' = [c \in Channels |-> <<>>]
    /\ Return
    /\ UNCHANGED <<objectVars, qualityVars, configVars, callbackVars, m_running, clock,
                   cycleLog, reader, call>>

\* startMeasurement(), line 52: create the thread and assign the handle.
SpawnWorker ==
    /\ ctl.pc = "spawn"
    /\ \E w \in WorkerIds :
          /\ workers[w].pc = "none"
          /\ \A v \in WorkerIds : v < w => workers[v].pc # "none"
          /\ workers' = [workers EXCEPT ![w] = [NoWorker EXCEPT !.pc = "loopTop"]]
          /\ m_measurementThread' = [id |-> w, joinable |-> TRUE]
    /\ Return
    /\ UNCHANGED <<objectVars, qualityVars, configVars, m_measurements, callbackVars, m_running, clock,
                   cycleLog, reader, call>>

\* Variant of stopMeasurement that clears the flag and returns without join().
stopMeasurement_NoJoin ==
    /\ ctl.pc = "ready"
    /\ m_running' = FALSE
    /\ Return
    /\ UNCHANGED <<objectVars, qualityVars, configVars, m_measurements, callbackVars, m_measurementThread,
                   workers, clock, cycleLog, reader, call>>

\* stopMeasurement(), line 58-60: test the flag, clear it, go on to join.
stopMeasurement ==
    /\ ctl.pc = "ready"
    /\ IF m_running
       THEN /\ m_running' = FALSE
            /\ IF m_measurementThread.joinable
               THEN ctl' = [pc |-> "join"]
               ELSE Return
       ELSE /\ m_running' = m_running
            /\ Return
    /\ UNCHANGED <<objectVars, qualityVars, configVars, m_measurements, callbackVars, m_measurementThread,
                   workers, clock, cycleLog, reader, call>>

\* Variant of JoinWorker that lets go of the thread without waiting for it
\* (detach() in place of join()).
JoinWorker_Detach ==
    /\ ctl.pc = "join"
    /\ m_measurementThread' = [m_measurementThread EXCEPT !.joinable = FALSE]
    /\ Return
    /\ UNCHANGED <<objectVars, qualityVars, configVars, m_measurements, callbackVars, m_running, workers,
                   clock, cycleLog, reader, call>>

\* stopMeasurement(), line 61: join() returns once the thread has finished.
JoinWorker ==
    /\ ctl.pc = "join"
    /\ workers[m_measurementThread.id].pc = "exited"
    /\ workers' = [workers EXCEPT ![m_measurementThread.id] = NoWorker]
    /\ m_measurementThread' = [m_measurementThread EXCEPT !.joinable = FALSE]
    /\ Return
    /\ UNCHANGED <<objectVars, qualityVars, configVars, m_measurements, callbackVars, m_running, clock,
                   cycleLog, reader, call>>

(***************************************************************************)
(* DataAcquisition::measurementLoop, one step per statement that touches   *)
(* shared state; w is the thread that runs it.                             *)
(***************************************************************************)
W(w) == workers[w]

\* Variant of LoopTop that never tests the flag: while (true).
LoopTop_Forever(w) ==
    /\ W(w).pc = "loopTop"
    /\ workers' = [workers EXCEPT ![w].pc = "forTop", ![w].elapsed = 0,
                                   ![w].it = NextChannel(0)]
    /\ cycleLog' = <<>>
    /\ UNCHANGED <<objectVars, qualityVars, configVars, m_measurements, callbackVars, m_running,
                   m_measurementThread, ctl, clock, reader, call>>

\* Line 74: while (m_running).  A new cycle starts at begin(); otherwise the
\* loop function returns and the thread finishes.
LoopTop(w) ==
    /\ W(w).pc = "loopTop"
    /\ IF m_running
       THEN /\ workers' = [workers EXCEPT ![w].pc = "forTop", ![w].elapsed = 0,
                                          ![w].it = NextChannel(0)]
            /\ cycleLog' = <<>>
       ELSE /\ workers' = [workers EXCEPT ![w].pc = "exited", ![w].elapsed = 0]
            /\ cycleLog' = cycleLog
    /\ UNCHANGED <<objectVars, qualityVars, configVars, m_measurements, callbackVars, m_running,
                   m_measurementThread, ctl, clock, reader, call>>

\* Lines 78-84: the for loop's end test, the break on a cleared flag, and the
\* call of channel->readGratingData().
ForTop(w) ==
    /\ W(w).pc = "forTop"
    /\ IF W(w).it = 0 \/ ~m_running
       THEN workers' = [workers EXCEPT ![w].pc = "pace"]
       ELSE workers' = [workers EXCEPT ![w].pc = "readGratingData",
                                       ![w].entry = m_measurements[W(w).it]]
    /\ UNCHANGED <<objectVars, qualityVars, configVars, m_measurements, callbackVars, m_running,
                   m_measurementThread, ctl, clock, cycleLog, reader, call>>

\* Variant of ReadBranch whose disconnected branch gives up and returns false.
ReadBranch_NoFallback(w) ==
    /\ W(w).pc = "readGratingData"
    /\ IF ~connected
       THEN workers' = [workers EXCEPT ![w].pc = "returned", ![w].ok = FALSE]
       ELSE workers' = [workers EXCEPT ![w].pc = "readLeft"]
    /\ UNCHANGED <<objectVars, qualityVars, configVars, m_measurements, callbackVars, m_running,
                   m_measurementThread, ctl, clock, cycleLog, reader, call>>

\* readGratingData, lines 353-368: the disconnected branch builds a simulated
\* sample; the connected branch goes on to the register reads.
ReadBranch(w) ==
    /\ W(w).pc = "readGratingData"
    /\ IF ~connected
       THEN /\ clock' = Tick
            /\ \E d \in SimulatedData(Tick) :
                   workers' = [workers EXCEPT ![w].pc = "push_back", ![w].data = d]
       ELSE /\ clock' = clock
            /\ workers' = [workers EXCEPT ![w].pc = "readLeft"]
    /\ UNCHANGED <<objectVars, qualityVars, configVars, m_measurements, callbackVars, m_running,
                   m_measurementThread, ctl, cycleLog, reader, call>>

\* Variant of ReadLeft that returns false at once when the left block is
\* empty, without reading the right block.
ReadLeft_SkipRight(w) ==
    /\ W(w).pc = "readLeft"
    /\ LET g == getChannelConfig(W(w).it).leftGrating
       IN \E r \in readHoldingRegisters(connected, g.slaveAddress, g.regAddress, g.regCount) :
              IF r = <<>>
              THEN workers' = [workers EXCEPT ![w].pc = "returned", ![w].ok = FALSE]
              ELSE workers' = [workers EXCEPT ![w].pc = "readRight", ![w].leftData = r]
    /\ UNCHANGED <<objectVars, qualityVars, configVars, m_measurements, callbackVars, m_running,
                   m_measurementThread, ctl, clock, cycleLog, reader, call>>

\* readGratingData, lines 378-383: the left block.
ReadLeft(w) ==
    /\ W(w).pc = "readLeft"
    /\ LET g == getChannelConfig(W(w).it).leftGrating
       IN \E r \in readHoldingRegisters(connected, g.slaveAddress, g.regAddress, g.regCount) :
              workers' = [workers EXCEPT ![w].pc = "readRight", ![w].leftData = r]
    /\ UNCHANGED <<objectVars, qualityVars, configVars, m_measurements, callbackVars, m_running,
                   m_measurementThread, ctl, clock, cycleLog, reader, call>>

\* readGratingData, lines 385-390: the right block.
ReadRight(w) ==
    /\ W(w).pc = "readRight"
    /\ LET g == getChannelConfig(W(w).it).rightGrating
       IN \E r \in readHoldingRegisters(connected, g.slaveAddress, g.regAddress, g.regCount) :
              workers' = [workers EXCEPT ![w].pc = "decode", ![w].rightData = r]
    /\ UNCHANGED <<objectVars, qualityVars, configVars, m_measurements, callbackVars, m_running,
                   m_measurementThread, ctl, clock, cycleLog, reader, call>>

\* Variant of Decode that falls back to a simulated sample when a block is
\* empty, as the disconnected branch does.
Decode_Synthesize(w) ==
    /\ W(w).pc = "decode"
    /\ clock' = Tick
    /\ IF W(w).leftData # <<>> /\ W(w).rightData # <<>>
       THEN workers' = [workers EXCEPT
                ![w].pc = "push_back",
                ![w].data = processRawData(W(w).leftData, W(w).rightData, Tick)]
       ELSE \E d \in SimulatedData(Tick) :
                workers' = [workers EXCEPT ![w].pc = "push_back", ![w].data = d]
    /\ UNCHANGED <<objectVars, qualityVars, configVars, m_measurements, callbackVars, m_running,
                   m_measurementThread, ctl, cycleLog, reader, call>>

\* Variant of Decode that treats a failed read as a fault of the channel: it
\* drops the buffered samples before it returns false.
Decode_ResetOnFailure(w) ==
    /\ W(w).pc = "decode"
    /\ IF W(w).leftData # <<>> /\ W(w).rightData # <<>>
       THEN /\ clock' = Tick
            /\ m_measurements' = m_measurements
            /\ workers' = [workers EXCEPT
                   ![w].pc = "push_back",
                   ![w].data = processRawData(W(w).leftData, W(w).rightData, Tick)]
       ELSE /\ clock' = clock
            /\ m_measurements' = [m_measurements EXCEPT ![W(w).it] = <<>>]
            /\ workers' = [workers EXCEPT ![w].pc = "returned", ![w].ok = FALSE]
    /\ UNCHANGED <<objectVars, qualityVars, configVars, callbackVars, m_running,
                   m_measurementThread, ctl, cycleLog, reader, call>>

\* readGratingData, lines 392-393 and 403: decode when both blocks hold data,
\* return false otherwise.
Decode(w) ==
    /\ W(w).pc = "decode"
    /\ IF W(w).leftData # <<>> /\ W(w).rightData # <<>>
       THEN /\ clock' = Tick
            /\ workers' = [workers EXCEPT
                   ![w].pc = "push_back",
                   ![w].data = processRawData(W(w).leftData, W(w).rightData, Tick)]
       ELSE /\ clock' = clock
            /\ workers' = [workers EXCEPT ![w].pc = "returned", ![w].ok = FALSE]
    /\ UNCHANGED <<objectVars, qualityVars, configVars, m_measurements, callbackVars, m_running,
                   m_measurementThread, ctl, cycleLog, reader, call>>

\* readGratingData, lines 369 and 394: m_measurements.push_back(data).
PushBack(w) ==
    /\ W(w).pc = "push_back"
    /\ m_measurements' = [m_measurements EXCEPT ![W(w).it] = Append(@, W(w).data)]
    /\ workers' = [workers EXCEPT ![w].pc = "erase"]
    /\ UNCHANGED <<objectVars, qualityVars, configVars, callbackVars, m_running, m_measurementThread,
                   ctl, clock, cycleLog, reader, call>>

\* Variant of Erase with the capacity test off by one.
Erase_OffByOne(w) ==
    /\ W(w).pc = "erase"
    /\ IF Len(m_measurements[W(w).it]) > MAX_MEASUREMENTS + 1
       THEN m_measurements' = [m_measurements EXCEPT ![W(w).it] = Tail(@)]
       ELSE m_measurements' = m_measurements
    /\ workers' = [workers EXCEPT ![w].pc = "returned", ![w].ok = TRUE]
    /\ UNCHANGED <<objectVars, qualityVars, configVars, callbackVars, m_running, m_measurementThread,
                   ctl, clock, cycleLog, reader, call>>

\* Variant of Erase that removes the newest sample (erase(end() - 1)).
Erase_Newest(w) ==
    /\ W(w).pc = "erase"
    /\ IF Len(m_measurements[W(w).it]) > MAX_MEASUREMENTS
       THEN m_measurements' = [m_measurements EXCEPT
                ![W(w).it] = SubSeq(@, 1, Len(@) - 1)]
       ELSE m_measurements' = m_measurements
    /\ workers' = [workers EXCEPT ![w].pc = "returned", ![w].ok = TRUE]
    /\ UNCHANGED <<objectVars, qualityVars, configVars, callbackVars, m_running, m_measurementThread,
                   ctl, clock, cycleLog, reader, call>>

\* readGratingData, lines 370-374 and 396-400: drop the oldest sample when
\* the history is over capacity; return true.
Erase(w) ==
    /\ W(w).pc = "erase"
    /\ IF Len(m_measurements[W(w).it]) > MAX_MEASUREMENTS
       THEN m_measurements' = [m_measurements EXCEPT ![W(w).it] = Tail(@)]
       ELSE m_measurements' = m_measurements
    /\ workers' = [workers EXCEPT ![w].pc = "returned", ![w].ok = TRUE]
    /\ UNCHANGED <<objectVars, qualityVars, configVars, callbackVars, m_running, m_measurementThread,
                   ctl, clock, cycleLog, reader, call>>

\* Variant of Returned that goes on to the callbacks whatever
\* readGratingData() returned.
Returned_IgnoreResult(w) ==
    /\ W(w).pc = "returned"
    /\ cycleLog' = Append(cycleLog, Event("poll", W(w).it, W(w).ok, ZeroData, NoAlarm))
    /\ workers' = [workers EXCEPT
           ![w].pc = "measurementCallback",
           ![w].leftData = <<>>, ![w].rightData = <<>>, ![w].entry = <<>>,
           ![w].data = getLatestMeasurement(m_measurements[W(w).it])]
    /\ UNCHANGED <<objectVars, qualityVars, configVars, m_measurements, callbackVars, m_running,
                   m_measurementThread, ctl, clock, reader, call>>

\* Line 84: the result of readGratingData() is tested; on false the loop
\* moves to the next channel.
Returned(w) ==
    /\ W(w).pc = "returned"
    /\ cycleLog' = Append(cycleLog, Event("poll", W(w).it, W(w).ok, ZeroData, NoAlarm))
    /\ IF W(w).ok
       THEN workers' = [workers EXCEPT
                ![w].pc = "measurementCallback",
                ![w].leftData = <<>>, ![w].rightData = <<>>, ![w].entry = <<>>,
                ![w].data = getLatestMeasurement(m_measurements[W(w).it])]
       ELSE workers' = [workers EXCEPT
                ![w].pc = "forTop", ![w].it = NextChannel(W(w).it),
                ![w].leftData = <<>>, ![w].rightData = <<>>, ![w].entry = <<>>,
                ![w].data = ZeroData]
    /\ UNCHANGED <<objectVars, qualityVars, configVars, m_measurements, callbackVars, m_running,
                   m_measurementThread, ctl, clock, reader, call>>

\* Variant of MeasurementCallback that keeps only the first message of
\* checkAlarms().
MeasurementCallback_FirstAlarmOnly(w) ==
    /\ W(w).pc = "measurementCallback"
    /\ IF m_measurementCallback
       THEN cycleLog' = Append(cycleLog, Event("measurement", W(w).it, TRUE, W(w).data, NoAlarm))
       ELSE cycleLog' = cycleLog
    /\ workers' = [workers EXCEPT
           ![w].pc = "alarmCallback", ![w].data = ZeroData, ![w].ok = FALSE,
           ![w].alarms = LET all == checkAlarms(W(w).it, m_measurements[W(w).it])
                         IN IF all = <<>> THEN <<>> ELSE <<Head(all)>>]
    /\ UNCHANGED <<objectVars, qualityVars, configVars, m_measurements, callbackVars, m_running,
                   m_measurementThread, ctl, clock, reader, call>>

\* Lines 88-93: the measurement callback, when one is registered, then
\* checkAlarms().
MeasurementCallback(w) ==
    /\ W(w).pc = "measurementCallback"
    /\ IF m_measurementCallback
       THEN cycleLog' = Append(cycleLog, Event("measurement", W(w).it, TRUE, W(w).data, NoAlarm))
       ELSE cycleLog' = cycleLog
    /\ workers' = [workers EXCEPT
           ![w].pc = "alarmCallback", ![w].data = ZeroData, ![w].ok = FALSE,
           ![w].alarms = checkAlarms(W(w).it, m_measurements[W(w).it])]
    /\ UNCHANGED <<objectVars, qualityVars, configVars, m_measurements, callbackVars, m_running,
                   m_measurementThread, ctl, clock, reader, call>>

\* Variant of AlarmCallback that drops the pending alarms once the run flag
\* is cleared.
AlarmCallback_Cancel(w) ==
    /\ W(w).pc = "alarmCallback"
    /\ IF m_alarmCallback /\ W(w).alarms # <<>> /\ m_running
       THEN /\ cycleLog' = Append(cycleLog,
                   Event("alarm", W(w).it, TRUE, ZeroData, Head(W(w).alarms)))
            /\ workers' = [workers EXCEPT ![w].alarms = Tail(@)]
       ELSE /\ cycleLog' = cycleLog
            /\ workers' = [workers EXCEPT ![w].pc = "forTop", ![w].alarms = <<>>,
                                          ![w].it = NextChannel(W(w).it)]
    /\ UNCHANGED <<objectVars, qualityVars, configVars, m_measurements, callbackVars, m_running,
                   m_measurementThread, ctl, clock, reader, call>>

\* Lines 94-98: the alarm callback, once per message; then the next channel.
AlarmCallback(w) ==
    /\ W(w).pc = "alarmCallback"
    /\ IF m_alarmCallback /\ W(w).alarms # <<>>
       THEN /\ cycleLog' = Append(cycleLog,
                   Event("alarm", W(w).it, TRUE, ZeroData, Head(W(w).alarms)))
            /\ workers' = [workers EXCEPT ![w].alarms = Tail(@)]
       ELSE /\ cycleLog' = cycleLog
            /\ workers' = [workers EXCEPT ![w].pc = "forTop", ![w].alarms = <<>>,
                                          ![w].it = NextChannel(W(w).it)]
    /\ UNCHANGED <<objectVars, qualityVars, configVars, m_measurements, callbackVars, m_running,
                   m_measurementThread, ctl, clock, reader, call>>

\* Variant of Pace that paces at a fixed rate: the time by which a cycle
\* overran the interval is taken off the sleep of the cycles after it.
Pace_FixedRate(w) ==
    /\ W(w).pc = "pace"
    /\ \E elapsed \in ElapsedValues :
          LET due == m_measurementInterval - elapsed + Min(W(w).sleepFor, 0)
          IN IF due > 0
             THEN workers' = [workers EXCEPT ![w].pc = "sleep", ![w].it = 0,
                                             ![w].elapsed = elapsed,
                                             ![w].sleepFor = due]
             ELSE workers' = [workers EXCEPT ![w].pc = "loopTop", ![w].it = 0,
                                             ![w].elapsed = elapsed,
                                             ![w].sleepFor = due]
    /\ UNCHANGED <<objectVars, qualityVars, configVars, m_measurements, callbackVars, m_running,
                   m_measurementThread, ctl, clock, cycleLog, reader, call>>

\* Lines 103-108: sleep for the rest of the interval when the cycle was
\* shorter than the interval, else go straight to the loop test.
Pace(w) ==
    /\ W(w).pc = "pace"
    /\ \E elapsed \in ElapsedValues :
          IF elapsed < m_measurementInterval
          THEN workers' = [workers EXCEPT ![w].pc = "sleep", ![w].it = 0,
                                          ![w].elapsed = elapsed,
                                          ![w].sleepFor = m_measurementInterval - elapsed]
          ELSE workers' = [workers EXCEPT ![w].pc = "loopTop", ![w].it = 0,
                                          ![w].elapsed = elapsed]
    /\ UNCHANGED <<objectVars, qualityVars, configVars, m_measurements, callbackVars, m_running,
                   m_measurementThread, ctl, clock, cycleLog, reader, call>>

\* Line 107: sleep_for returns.
Sleep(w) ==
    /\ W(w).pc = "sleep"
    /\ workers' = [workers EXCEPT ![w].pc = "loopTop", ![w].elapsed = 0,
                                   ![w].sleepFor = 0]
    /\ UNCHANGED <<objectVars, qualityVars, configVars, m_measurements, callbackVars, m_running,
                   m_measurementThread, ctl, clock, cycleLog, reader, call>>

measurementLoop(w) ==
    \/ LoopTop(w)
    \/ ForTop(w)
    \/ ReadBranch(w)
    \/ ReadLeft(w)
    \/ ReadRight(w)
    \/ Decode(w)
    \/ PushBack(w)
    \/ Erase(w)
    \/ Returned(w)
    \/ MeasurementCallback(w)
    \/ AlarmCallback(w)
    \/ Pace(w)
    \/ Sleep(w)

(***************************************************************************)
(* The register reads at the grain of the serial line: sendModbusCommand   *)
(* writes the request frame, sleeps, and reads the response.               *)
(***************************************************************************)
\* Positions of a worker between the WriteFile and the ReadFile of one
\* sendModbusCommand.
Awaiting == {"awaitLeft", "awaitRight"}

\* sendModbusCommand for the left block up to WriteFile: the frame goes out,
\* or the write fails and the block stays empty.
WriteLeft(w) ==
    /\ W(w).pc = "readLeft"
    /\ \/ workers' = [workers EXCEPT ![w].pc = "awaitLeft"]
       \/ workers' = [workers EXCEPT ![w].pc = "readRight", ![w].leftData = <<>>]
    /\ UNCHANGED <<objectVars, qualityVars, configVars, m_measurements, callbackVars, m_running,
                   m_measurementThread, ctl, clock, cycleLog, reader, call>>

\* ReadFile and the decoding of the left block.
AnswerLeft(w) ==
    /\ W(w).pc = "awaitLeft"
    /\ LET g == getChannelConfig(W(w).it).leftGrating
       IN \E r \in readHoldingRegisters(connected, g.slaveAddress, g.regAddress, g.regCount) :
              workers' = [workers EXCEPT ![w].pc = "readRight", ![w].leftData = r]
    /\ UNCHANGED <<objectVars, qualityVars, configVars, m_measurements, callbackVars, m_running,
                   m_measurementThread, ctl, clock, cycleLog, reader, call>>

\* Variant of WriteRight that does not wait for the answer to the left
\* request: the right frame goes out while the left one is unanswered.
WriteRight_Unanswered(w) ==
    /\ W(w).pc \in {"readRight", "awaitLeft"}
    /\ \/ workers' = [workers EXCEPT ![w].pc = "awaitRight"]
       \/ workers' = [workers EXCEPT ![w].pc = "decode", ![w].rightData = <<>>]
    /\ UNCHANGED <<objectVars, qualityVars, configVars, m_measurements, callbackVars, m_running,
                   m_measurementThread, ctl, clock, cycleLog, reader, call>>

\* sendModbusCommand for the right block up to WriteFile.
WriteRight(w) ==
    /\ W(w).pc = "readRight"
    /\ \/ workers' = [workers EXCEPT ![w].pc = "awaitRight"]
       \/ workers' = [workers EXCEPT ![w].pc = "decode", ![w].rightData = <<>>]
    /\ UNCHANGED <<objectVars, qualityVars, configVars, m_measurements, callbackVars, m_running,
                   m_measurementThread, ctl, clock, cycleLog, reader, call>>

\* ReadFile and the decoding of the right block.
AnswerRight(w) ==
    /\ W(w).pc = "awaitRight"
    /\ LET g == getChannelConfig(W(w).it).rightGrating
       IN \E r \in readHoldingRegisters(connected, g.slaveAddress, g.regAddress, g.regCount) :
              workers' = [workers EXCEPT ![w].pc = "decode", ![w].rightData = r]
    /\ UNCHANGED <<objectVars, qualityVars, configVars, m_measurements, callbackVars, m_running,
                   m_measurementThread, ctl, clock, cycleLog, reader, call>>

\* measurementLoop with its register reads in two steps each.
measurementLoopOnLine(w) ==
    \/ LoopTop(w)
    \/ ForTop(w)
    \/ ReadBranch(w)
    \/ WriteLeft(w)
    \/ AnswerLeft(w)
    \/ WriteRight(w)
    \/ AnswerRight(w)
    \/ Decode(w)
    \/ PushBack(w)
    \/ Erase(w)
    \/ Returned(w)
    \/ MeasurementCallback(w)
    \/ AlarmCallback(w)
    \/ Pace(w)
    \/ Sleep(w)

NextOnLine ==
    \/ initialize
    \/ setMeasurementCallback
    \/ setAlarmCallback
    \/ startMeasurement
    \/ SpawnWorker
    \/ stopMeasurement
    \/ JoinWorker
    \/ \E w \in WorkerIds : measurementLoopOnLine(w)

SpecOnLine == Init /\ [][NextOnLine]_vars

(***************************************************************************)
(* A monitoring thread reading a channel while the worker runs.            *)
(***************************************************************************)
ReadHistory ==
    /\ \E c \in m_channels, count \in 0..(MAX_MEASUREMENTS + 1) :
          reader' = [reader EXCEPT !.history = getMeasurementHistory(m_measurements[c], count)]
    /\ UNCHANGED <<objectVars, qualityVars, configVars, m_measurements, callbackVars, threadVars, ctl,
                   clock, cycleLog, call>>

ReadLatest ==
    /\ \E c \in m_channels :
          reader' = [reader EXCEPT !.latest = getLatestMeasurement(m_measurements[c])]
    /\ UNCHANGED <<objectVars, qualityVars, configVars, m_measurements, callbackVars, threadVars, ctl,
                   clock, cycleLog, call>>

Next ==
    \/ initialize
    \/ setMeasurementCallback
    \/ setAlarmCallback
    \/ startMeasurement
    \/ SpawnWorker
    \/ stopMeasurement
    \/ JoinWorker
    \/ \E w \in WorkerIds : measurementLoop(w)

Spec == Init /\ [][Next]_vars

\* The scheduler runs every thread that can take a step: a worker inside
\* measurementLoop goes on (register reads, callbacks and sleep_for return),
\* and join() returns once the thread has finished.
SpecLive ==
    /\ Spec
    /\ \A w \in WorkerIds : WF_vars(measurementLoop(w))
    /\ WF_vars(JoinWorker)

NextReader == Next \/ ReadHistory \/ ReadLatest

SpecReader == Init /\ [][NextReader]_vars

(***************************************************************************)
(* Single calls: one operation applied once to arguments drawn from small  *)
(* sets, the object being otherwise as constructed.                        *)
(***************************************************************************)
\* The sequences over S of length at most n.
SeqsUpTo(S, n) == UNION {[1..k -> S] : k \in 0..n}

\* Byte sequences given to calculateCRC16: short ones, and the two reference
\* vectors (the request of the specification and the ASCII digits 1..9).
CrcInputs ==
    SeqsUpTo({0, 1, 3, 255}, MaxCrcLen)
        \cup {<<1, 3, 0, 20, 0, 2>>, <<49, 50, 51, 52, 53, 54, 55, 56, 57>>}

CommandInputs ==
    [slaveAddr : {1, 11, 247, 255},
     regAddr   : {0, 20, 256, 65535},
     regCount  : {0, 1, 2, 125, 65535}]

RECURSIVE RegisterBytes(_)
RegisterBytes(words) ==
    IF words = <<>> THEN <<>>
    ELSE <<Head(words) \div 256, Head(words) % 256>> \o RegisterBytes(Tail(words))

\* The response of a device at slaveAddr that reports words, checksum and all.
ResponseFrame(slaveAddr, words) ==
    LET body == <<slaveAddr, READ_HOLDING_REGISTERS, 2 * Len(words)>>
                    \o RegisterBytes(words)
        crc == calculateCRC16(body)
    IN body \o <<crc % 256, crc \div 256>>

\* The frame with its last checksum byte damaged.
Damaged(frame) == [frame EXCEPT ![Len(frame)] = (@ + 1) % 256]

GoodFrames ==
    {ResponseFrame(LeftSlaveBase + 1, words) :
        words \in {<<P1_NOMINAL>>, <<P1_NOMINAL, P5_NOMINAL>>, <<P5_NOMINAL, P3_NOMINAL>>}}

\* What the serial line can do with a command: the write fails, the read
\* fails, or the read delivers bytes (none on a timeout).
LineBehaviours ==
    {[written |-> FALSE, read |-> FALSE, bytes |-> <<>>],
     [written |-> TRUE, read |-> FALSE, bytes |-> <<>>]}
        \cup {[written |-> TRUE, read |-> TRUE, bytes |-> b] :
                 b \in SeqsUpTo({0, 2, 3}, MaxFrameLen) \cup GoodFrames
                          \cup {Damaged(f) : f \in GoodFrames}}

ConnectedReadInputs == [io : LineBehaviours, regCount : 0..MaxRegCount]

DisconnectedReadInputs ==
    [slaveAddr : {1, 11}, regAddr : {0, 20}, regCount : {0, 1, 2, 3, 437, 1000}]

\* A sample that differs from the zero sample and from SampleAt(j), j # k.
SampleAt(k) == [ZeroData EXCEPT !.p1_avg = P1_NOMINAL + k, !.timestamp = k]

\* One successful readGratingData() on a history: push_back, then erase of
\* the oldest sample when over capacity.
appendSample(measurements, data) ==
    LET pushed == Append(measurements, data)
    IN IF Len(pushed) > MAX_MEASUREMENTS THEN Tail(pushed) ELSE pushed

\* The history of a new channel after the samples of appended, in order.
RECURSIVE HistoryAfter(_)
HistoryAfter(appended) ==
    IF appended = <<>> THEN <<>>
    ELSE appendSample(HistoryAfter(SubSeq(appended, 1, Len(appended) - 1)),
                      appended[Len(appended)])

AppendedInputs == SeqsUpTo({SampleAt(k) : k \in 1..3}, MAX_MEASUREMENTS + 2)

HistoryInputs == [appended : AppendedInputs, count : 0..(MAX_MEASUREMENTS + 2)]

\* Two samples that differ in every average.
CpkSamples ==
    {[ZeroData EXCEPT !.p1_avg = Nearest(P1_NOMINAL, 1), !.p5u_avg = Nearest(P5_NOMINAL, 1),
                      !.p5l_avg = Nearest(P5_NOMINAL, 1), !.p3_avg = Nearest(P3_NOMINAL, 1),
                      !.p4_avg = Nearest(P4_NOMINAL, 1)],
     [ZeroData EXCEPT !.p1_avg = Nearest(P1_NOMINAL + 50, 1),
                      !.p5u_avg = Nearest(P5_NOMINAL + 40, 1),
                      !.p5l_avg = Nearest(P5_NOMINAL - 40, 1),
                      !.p3_avg = Nearest(P3_NOMINAL + 100, 1),
                      !.p4_avg = Nearest(P4_NOMINAL + 10, 1)]}

\* The five parameter names, and one that is none of them.
ParameterNames == {"P1", "P5U", "P5L", "P3", "P4", "P2"}

ChannelCpkInputs ==
    [measurements : SeqsUpTo(CpkSamples, MaxCpkSamples), parameter : ParameterNames]

\* Samples around the alarm limits: each alarmed average below, at, between,
\* at and above its limits, the other averages at or away from nominal.
AlarmSamples ==
    {[ZeroData EXCEPT !.p1_avg = p1, !.p5u_avg = p5u, !.p5l_avg = p5l,
                      !.p3_avg = P3_NOMINAL + other, !.p4_avg = P4_NOMINAL + other] :
        p1 \in {P1_LOWER - 1, P1_LOWER, P1_NOMINAL, P1_UPPER, P1_UPPER + 1},
        p5u \in {P5_LOWER - 2, P5_LOWER, P5_NOMINAL, P5_UPPER, P5_UPPER + 2},
        p5l \in {P5_LOWER - 2, P5_LOWER, P5_NOMINAL, P5_UPPER, P5_UPPER + 2},
        other \in {0, 1000}}

\* Older samples: every alarmed average above, or below, its limits.
OlderSamples ==
    {[ZeroData EXCEPT !.p1_avg = P1_UPPER + d, !.p5u_avg = P5_UPPER + d,
                      !.p5l_avg = P5_UPPER + d] : d \in {10}}
        \cup {[ZeroData EXCEPT !.p1_avg = P1_LOWER - d, !.p5u_avg = P5_LOWER - d,
                               !.p5l_avg = P5_LOWER - d] : d \in {10}}

AlarmInputs ==
    [channelNum : Channels,
     measurements : {<<>>} \cup {<<s>> : s \in AlarmSamples \cup OlderSamples}
                        \cup {<<o, s>> : o \in OlderSamples, s \in AlarmSamples}]

\* Data sets of P1 averages: nominal, off nominal, at the upper limit.
DataSets ==
    SeqsUpTo({Nearest(P1_NOMINAL, 1), Nearest(P1_NOMINAL + 50, 1), Nearest(P1_UPPER, 1)},
             MaxDataLen)

\* Limit tables: as constructed, and with the limits of P1 set equal.
LimitTables ==
    {initializeDefaultLimits,
     setCPKLimits(initializeDefaultLimits, "P1",
                  CPKLimits(P1_NOMINAL, P1_NOMINAL, P1_NOMINAL, 133, 100))}

StatisticsInputs ==
    [m_cpkLimits : LimitTables, data : DataSets, parameter : {"P1", "P4", "P2"}]

\* Capability indices in hundredths: negative, zero, and each threshold with
\* its neighbours.
CpkValues == {-100, 0, 99, 100, 101, 132, 133, 134, 166, 167, 168, 1000}

\* initialize(): how the serial API behaves, and the channels whose
\* configuration fails to load.
InitializeInputs == [api : SerialApi, throwing : SUBSET Channels]

\* A call of op on arg that has not run yet.
Pending(op, arg) == [op |-> op, arg |-> arg, done |-> FALSE]

\* The call under examination returns out.
Finish(out) ==
    /\ ~call.done
    /\ call' = [op |-> call.op, arg |-> call.arg, out |-> out, done |-> TRUE]
    /\ UNCHANGED <<objectVars, qualityVars, configVars, m_measurements, callbackVars, threadVars, ctl,
                   clock, cycleLog, reader>>

InitCalls ==
    /\ Constructed
    /\ \/ \E a \in CrcInputs : call = Pending("calculateCRC16", a)
       \/ \E a \in CommandInputs : call = Pending("createModbusReadCommand", a)
       \/ \E a \in ConnectedReadInputs : call = Pending("readConnected", a)
       \/ \E a \in DisconnectedReadInputs : call = Pending("readDisconnected", a)
       \/ \E a \in SerialApi : call = Pending("initializeSerial", a)
       \/ \E a \in AppendedInputs : call = Pending("getLatestMeasurement", a)
       \/ \E a \in HistoryInputs : call = Pending("getMeasurementHistory", a)
       \/ \E a \in AlarmInputs : call = Pending("checkAlarms", a)
       \/ \E a \in StatisticsInputs : call = Pending("calculateStatistics", a)
       \/ \E a \in CpkValues : call = Pending("getQualityStatus", a)
       \/ \E a \in InitializeInputs : call = Pending("initialize", a)
       \/ \E a \in ChannelCpkInputs : call = Pending("GratingChannel::calculateCPK", a)

CallCalculateCRC16 ==
    /\ call.op = "calculateCRC16"
    /\ Finish(calculateCRC16(call.arg))

CallCreateModbusReadCommand ==
    /\ call.op = "createModbusReadCommand"
    /\ Finish(createModbusReadCommand(call.arg.slaveAddr, call.arg.regAddr,
                                      call.arg.regCount))

\* readHoldingRegisters on an open port.
CallReadConnected ==
    /\ call.op = "readConnected"
    /\ \E r \in readHoldingRegistersOver(call.arg.io, call.arg.regCount) : Finish(r)

\* readHoldingRegisters on a closed port.
CallReadDisconnected ==
    /\ call.op = "readDisconnected"
    /\ \E r \in readHoldingRegisters(FALSE, call.arg.slaveAddr, call.arg.regAddr,
                                     call.arg.regCount) : Finish(r)

CallInitializeSerial ==
    /\ call.op = "initializeSerial"
    /\ Finish(initializeSerial(call.arg))

\* getLatestMeasurement() on a channel that has appended call.arg.
CallGetLatestMeasurement ==
    /\ call.op = "getLatestMeasurement"
    /\ Finish(getLatestMeasurement(HistoryAfter(call.arg)))

\* getMeasurementHistory(count) on a channel that has appended
\* call.arg.appended.
CallGetMeasurementHistory ==
    /\ call.op = "getMeasurementHistory"
    /\ Finish(getMeasurementHistory(HistoryAfter(call.arg.appended), call.arg.count))

\* GratingChannel::calculateCPK(parameter) on a channel that holds
\* call.arg.measurements.
CallChannelCalculateCPK ==
    /\ call.op = "GratingChannel::calculateCPK"
    /\ Finish(GratingChannel_calculateCPK(call.arg.measurements, call.arg.parameter))

\* checkAlarms() on channel call.arg.channelNum holding
\* call.arg.measurements.
CallCheckAlarms ==
    /\ call.op = "checkAlarms"
    /\ Finish(checkAlarms(call.arg.channelNum, call.arg.measurements))

\* calculateStatistics(data, parameter) on a QualityControl whose limit table
\* is call.arg.m_cpkLimits.
CallCalculateStatistics ==
    /\ call.op = "calculateStatistics"
    /\ Finish(calculateStatistics(call.arg.m_cpkLimits, call.arg.data,
                                  call.arg.parameter))

CallGetQualityStatus ==
    /\ call.op = "getQualityStatus"
    /\ Finish(getQualityStatus(call.arg))

CallInitialize ==
    /\ call.op = "initialize"
    /\ Finish(initializeFrom(call.arg.api, call.arg.throwing))

NextCalls ==
    \/ CallCalculateCRC16
    \/ CallCreateModbusReadCommand
    \/ CallReadConnected
    \/ CallReadDisconnected
    \/ CallInitializeSerial
    \/ CallGetLatestMeasurement
    \/ CallGetMeasurementHistory
    \/ CallChannelCalculateCPK
    \/ CallCheckAlarms
    \/ CallCalculateStatistics
    \/ CallGetQualityStatus
    \/ CallInitialize

SpecCalls == InitCalls /\ [][NextCalls]_vars

(***************************************************************************)
(* QualityControl: its operations in any order on one object, each step    *)
(* recording in call the operation it ran, its arguments and its result.   *)
(***************************************************************************)
\* A registered name and one that the constructor does not register.
QcParameters == {"P1", "P2"}

\* Limits a caller registers.
QcLimits ==
    {CPKLimits(21950, 22050, 22000, 133, 100), CPKLimits(21000, 23000, 22500, 150, 110)}

QcChannels == {1, 2}

\* Data sets given to calculateStatistics: none, two distinct values, three
\* equal values.
QcData ==
    {<<>>, <<Nearest(P1_NOMINAL, 1), Nearest(P1_NOMINAL + 50, 1)>>,
     <<Nearest(P1_NOMINAL + 50, 1), Nearest(P1_NOMINAL + 50, 1), Nearest(P1_NOMINAL + 50, 1)>>}

\* The data set given to updateStatistics; the snapshot taken of it varies
\* with the limits registered at the time.
QcUpdateData == {<<Nearest(P1_NOMINAL, 1), Nearest(P1_NOMINAL + 50, 1)>>}

\* The operation op ran on arg and returned out.
Ran(op, arg, out) ==
    /\ call' = [op |-> op, arg |-> arg, out |-> out, done |-> TRUE]
    /\ UNCHANGED <<objectVars, configVars, m_measurements, callbackVars, threadVars, ctl,
                   clock, cycleLog, reader>>

QcSetCPKLimits ==
    \E p \in QcParameters, limits \in QcLimits :
        /\ m_cpkLimits' = setCPKLimits(m_cpkLimits, p, limits)
        /\ UNCHANGED m_channelStatistics
        /\ Ran("setCPKLimits", [parameter |-> p, limits |-> limits], "void")

\* Variant of QcGetCPKLimits that looks the name up with operator[], which
\* registers a value-initialized entry for a name not found.
QcGetCPKLimits_Registering ==
    \E p \in QcParameters :
        /\ m_cpkLimits' = IF p \in DOMAIN m_cpkLimits THEN m_cpkLimits
                          ELSE setCPKLimits(m_cpkLimits, p, CPKLimits(0, 0, 0, 0, 0))
        /\ UNCHANGED m_channelStatistics
        /\ Ran("getCPKLimits", [parameter |-> p], getCPKLimits(m_cpkLimits, p))

\* getCPKLimits is const: the table is as before.
QcGetCPKLimits ==
    \E p \in QcParameters :
        /\ UNCHANGED qualityVars
        /\ Ran("getCPKLimits", [parameter |-> p], getCPKLimits(m_cpkLimits, p))

QcCalculateStatistics ==
    \E p \in QcParameters, data \in QcData :
        /\ UNCHANGED qualityVars
        /\ Ran("calculateStatistics", [data |-> data, parameter |-> p],
               calculateStatistics(m_cpkLimits, data, p))

QcUpdateStatistics ==
    \E c \in QcChannels, p \in QcParameters, data \in QcUpdateData :
        /\ m_channelStatistics' =
               updateStatistics(m_channelStatistics, m_cpkLimits, c, p, data)
        /\ UNCHANGED m_cpkLimits
        /\ Ran("updateStatistics", [channelNum |-> c, parameter |-> p, data |-> data],
               "void")

QcGetChannelStatistics ==
    \E c \in QcChannels, p \in QcParameters :
        /\ UNCHANGED qualityVars
        /\ Ran("getChannelStatistics", [channelNum |-> c, parameter |-> p],
               getChannelStatistics(m_channelStatistics, c, p))

NextQuality ==
    \/ QcSetCPKLimits
    \/ QcGetCPKLimits
    \/ QcCalculateStatistics
    \/ QcUpdateStatistics
    \/ QcGetChannelStatistics

SpecQuality == Init /\ [][NextQuality]_vars

\* The call of op has returned.
Returns(op) == call.op = op /\ call.done

(***************************************************************************)
(* Properties                                                              *)
(***************************************************************************)
\* The controlling thread is outside any call and the run flag is clear:
\* the state after construction and after every return of stopMeasurement().
Idle == ctl.pc = "ready" /\ ~m_running

\* The step invokes the measurement or the alarm callback.
CallbackInvoked ==
    /\ Len(cycleLog') = Len(cycleLog) + 1
    /\ cycleLog'[Len(cycleLog')].kind \in {"measurement", "alarm"}

\* The worker w is inside readGratingData() on channel c, between push_back
\* and the capacity test.
Appending(w, c) == W(w).pc = "erase" /\ W(w).it = c

\* C1: once stopMeasurement() has returned, and until startMeasurement() is
\* called again, no worker thread exists any more and no step invokes a
\* measurement or alarm callback, wherever in its cycle the worker was when
\* the flag was cleared.
C1_StopQuiescent ==
    /\ [](Idle => \A w \in WorkerIds : workers[w] = NoWorker)
    /\ [][Idle => ~CallbackInvoked]_vars

\* A stop that returned after the worker had invoked a callback.
C1_Witness ==
    /\ Idle
    /\ m_measurementThread.id # 0
    /\ \E i \in 1..Len(cycleLog) : cycleLog[i].kind = "measurement"

\* C2: outside a readGratingData() call, the history of every channel holds
\* at most MAX_MEASUREMENTS samples.
C2_HistoryBounded ==
    \A c \in Channels :
        (\A w \in WorkerIds : ~Appending(w, c)) =>
            Len(m_measurements[c]) <= MAX_MEASUREMENTS

\* A call has just returned on a history that was full when it was entered.
C2_Witness ==
    \E w \in WorkerIds :
        /\ W(w).pc = "returned"
        /\ W(w).ok
        /\ Len(W(w).entry) = MAX_MEASUREMENTS
        /\ Len(m_measurements[W(w).it]) = MAX_MEASUREMENTS

\* C3: when readGratingData() returns true, the history is the history at
\* entry followed by the new sample, without its first element when the
\* history at entry was full and with nothing removed otherwise.
C3_FifoEviction ==
    \A w \in WorkerIds :
        (W(w).pc = "returned" /\ W(w).ok) =>
            /\ Len(W(w).entry) = MAX_MEASUREMENTS =>
                   m_measurements[W(w).it] = Append(Tail(W(w).entry), W(w).data)
            /\ Len(W(w).entry) < MAX_MEASUREMENTS =>
                   m_measurements[W(w).it] = Append(W(w).entry, W(w).data)

\* An eviction that removed a sample different from the ones kept.
C3_Witness ==
    \E w \in WorkerIds :
        /\ W(w).pc = "returned"
        /\ W(w).ok
        /\ Len(W(w).entry) = MAX_MEASUREMENTS
        /\ W(w).entry[1] # W(w).entry[MAX_MEASUREMENTS]
        /\ W(w).entry[1] # W(w).data

\* Events of one kind that the current cycle logged for channel c.
Logged(kind, c) ==
    {i \in 1..Len(cycleLog) : cycleLog[i].kind = kind /\ cycleLog[i].channel = c}

\* Channels whose readGratingData() returned in the current cycle.
Polled == {c \in Channels : Logged("poll", c) # {}}

\* The worker w has left the for loop of its current cycle.
CycleEnded(w) == W(w).pc = "pace"

\* Everything the loop body owes channel c once its poll has returned:
\* after a successful poll the registered measurement callback ran once and
\* the registered alarm callback ran once per message of checkAlarms().
ChannelCompleted(c) ==
    \A i \in Logged("poll", c) :
        cycleLog[i].ok =>
            /\ m_measurementCallback => Cardinality(Logged("measurement", c)) = 1
            /\ m_alarmCallback =>
                   Cardinality(Logged("alarm", c)) = Len(checkAlarms(c, m_measurements[c]))

\* C4 as stated: when a cycle ends, every configured channel was polled in
\* it, whether or not stopMeasurement() was called during the cycle.
C4_NoMidCycleCancel ==
    \A w \in WorkerIds : CycleEnded(w) => Polled = m_channels

\* C4 amended: a stop request takes effect at a channel boundary.  When a
\* cycle ends, the channels polled in it are the first ones in ascending id
\* order, each with its poll and all its callbacks completed, and a channel
\* was left out only with the run flag cleared.
C4_CancelAtChannelBoundary ==
    \A w \in WorkerIds :
        CycleEnded(w) =>
            /\ Polled \subseteq m_channels
            /\ \A c \in Polled : \A b \in m_channels : b < c => b \in Polled
            /\ \A c \in Polled : ChannelCompleted(c)
            /\ Polled # m_channels => ~m_running

\* A cycle cut short after its first channel, whose alarms were all sent.
C4_Witness ==
    \E w \in WorkerIds :
        /\ CycleEnded(w)
        /\ Polled # {} /\ Polled # m_channels
        /\ m_alarmCallback
        /\ \E c \in Polled : Logged("alarm", c) # {}

\* The worker w is back from readGratingData() on a connected transport
\* with at least one of the two register blocks empty.
EmptyBlockReturn(w) ==
    /\ W(w).pc = "returned"
    /\ connected
    /\ (W(w).leftData = <<>> \/ W(w).rightData = <<>>)

\* C5 as stated: connected, with the left or the right block empty,
\* readGratingData() appends a sample and returns true.
C5_EmptyBlockSynthesizes ==
    \A w \in WorkerIds :
        EmptyBlockReturn(w) =>
            /\ W(w).ok
            /\ m_measurements[W(w).it] # W(w).entry

\* C5 amended: connected, with the left or the right block empty,
\* readGratingData() returns false and leaves the history as it was.
C5_EmptyBlockFails ==
    \A w \in WorkerIds :
        EmptyBlockReturn(w) =>
            /\ ~W(w).ok
            /\ m_measurements[W(w).it] = W(w).entry

\* The left read came back empty, the right one did not.
C5_Witness ==
    \E w \in WorkerIds :
        /\ EmptyBlockReturn(w)
        /\ W(w).leftData = <<>>
        /\ W(w).rightData # <<>>

\* C6: disconnected, readGratingData() returns true and the history is one
\* sample longer than at entry, up to the capacity.
C6_DisconnectedAlwaysAppends ==
    \A w \in WorkerIds :
        (W(w).pc = "returned" /\ ~connected) =>
            /\ W(w).ok
            /\ Len(m_measurements[W(w).it]) =
                   Min(Len(W(w).entry) + 1, MAX_MEASUREMENTS)
            /\ getLatestMeasurement(m_measurements[W(w).it]) = W(w).data

\* A disconnected call that filled the history to its capacity.
C6_Witness ==
    \E w \in WorkerIds :
        /\ W(w).pc = "returned"
        /\ ~connected
        /\ Len(W(w).entry) = MAX_MEASUREMENTS - 1
        /\ Len(m_measurements[W(w).it]) = MAX_MEASUREMENTS

\* The step creates a thread.
WorkerCreated == \E w \in WorkerIds : workers[w].pc = "none" /\ workers'[w].pc # "none"

\* C7: the run flag changes only in a startMeasurement() entered with the
\* flag clear (Idle -> Running) and in a stopMeasurement() entered with the
\* flag set (Running -> Idle); startMeasurement() goes on to create a thread
\* only from Idle, stopMeasurement() goes on to join only from Running, and a
\* thread is created only by such a startMeasurement().
C7_RunStateTransitions ==
    [][ /\ (m_running' # m_running) =>
              /\ ctl.pc = "ready"
              /\ \/ ~m_running /\ ctl'.pc = "spawn"
                 \/ m_running /\ ctl'.pc \in {"join", "ready"}
        /\ (ctl.pc # "spawn" /\ ctl'.pc = "spawn") => (~m_running /\ m_running')
        /\ (ctl.pc # "join" /\ ctl'.pc = "join") => (m_running /\ ~m_running')
        /\ WorkerCreated => (ctl.pc = "spawn" /\ m_running /\ LiveWorkers = {})
      ]_vars

\* Running again after a stop: the worker stands at the loop test while the
\* log still shows the cycle that the earlier stop cut short.
C7_Witness ==
    /\ m_running
    /\ ctl.pc = "ready"
    /\ \E w \in WorkerIds : W(w).pc = "loopTop"
    /\ Polled # {} /\ Polled # m_channels

\* C8: at most one thread runs measurementLoop at any time, and exactly one
\* does whenever the controlling thread is outside its calls with the run
\* flag set.
C8_SingleWorker ==
    /\ Cardinality(LiveWorkers) <= 1
    /\ (m_running /\ ctl.pc = "ready") => Cardinality(LiveWorkers) = 1

\* Running with one worker after start, stop, start: disconnected, every poll
\* succeeds, so the first channel is two samples ahead only after a cycle
\* that a stop cut short.
C8_Witness ==
    /\ m_running
    /\ ctl.pc = "ready"
    /\ Cardinality(LiveWorkers) = 1
    /\ ~connected
    /\ Len(m_measurements[1]) >= 2
    /\ m_measurements[2] = <<>>

\* C9: a monitoring thread never reads a history longer than the capacity.
C9_ReaderNeverSeesOverfull == Len(reader.history) <= MAX_MEASUREMENTS

Rank(kind) == IF kind = "poll" THEN 0 ELSE IF kind = "measurement" THEN 1 ELSE 2

\* The worker w is inside readGratingData().
Polling(w) ==
    W(w).pc \in {"readGratingData", "readLeft", "readRight", "decode",
                 "push_back", "erase", "returned"}

\* C10: in the log of a cycle the channel ids never decrease; for one channel
\* the poll comes first, then the measurement callback, then the alarm
\* callbacks; and while a channel is being polled every logged event belongs
\* to a channel with a smaller id.
C10_CycleOrder ==
    /\ \A i, j \in 1..Len(cycleLog) :
           i < j =>
               /\ cycleLog[i].channel <= cycleLog[j].channel
               /\ cycleLog[i].channel = cycleLog[j].channel =>
                      /\ Rank(cycleLog[i].kind) <= Rank(cycleLog[j].kind)
                      /\ Rank(cycleLog[i].kind) < 2 =>
                             Rank(cycleLog[i].kind) < Rank(cycleLog[j].kind)
    /\ \A w \in WorkerIds :
           Polling(w) =>
               \A i \in 1..Len(cycleLog) : cycleLog[i].channel < W(w).it

\* Channel 1 raised alarms and channel 2 was polled and reported after them.
C10_Witness ==
    \E i, j \in 1..Len(cycleLog) :
        /\ i < j
        /\ cycleLog[i].kind = "alarm" /\ cycleLog[i].channel = 1
        /\ cycleLog[j].kind = "measurement" /\ cycleLog[j].channel = 2

\* The worker w is inside the for loop of a cycle, or just past it: the log
\* is the log of its current cycle.
InCycle(w) == W(w).pc \notin {"none", "exited", "loopTop", "sleep"}

\* The poll of channel c returned true in the current cycle.
PollOk(c) == \E i \in Logged("poll", c) : cycleLog[i].ok

\* The worker w has polled channel c in its current cycle and is past the
\* measurement callback of c.
PastMeasurement(w, c) ==
    /\ InCycle(w)
    /\ c \in Polled
    /\ ~(W(w).it = c /\ W(w).pc = "measurementCallback")

\* C11: with a measurement callback registered, the callback is invoked once
\* for every channel whose readGratingData() returned true and never for a
\* channel whose poll returned false; it is invoked right after that poll,
\* with the channel's id and the sample that poll appended, which is the
\* newest sample of the channel's history.
C11_MeasurementCallbackPerGoodPoll ==
    /\ [](\A c \in Channels :
            /\ Cardinality(Logged("measurement", c)) <= 1
            /\ \A i \in Logged("measurement", c) :
                   /\ i > 1
                   /\ cycleLog[i - 1].kind = "poll"
                   /\ cycleLog[i - 1].channel = c
                   /\ cycleLog[i - 1].ok
                   /\ m_measurements[c] # <<>>
                   /\ cycleLog[i].data = m_measurements[c][Len(m_measurements[c])]
            /\ \A w \in WorkerIds :
                   (PastMeasurement(w, c) /\ m_measurementCallback) =>
                       Cardinality(Logged("measurement", c)) =
                           (IF PollOk(c) THEN 1 ELSE 0))
    /\ [][\A w \in WorkerIds :
            (W(w).pc = "returned" /\ W(w)'.pc = "measurementCallback") =>
                /\ W(w).ok
                /\ W(w)'.data = W(w).data
                /\ W(w)'.it = W(w).it]_vars

\* In one cycle the first channel's poll failed and got no callback, the
\* second channel's poll succeeded and got one.
C11_Witness ==
    \E w \in WorkerIds :
        /\ PastMeasurement(w, 1) /\ PastMeasurement(w, 2)
        /\ m_measurementCallback
        /\ ~PollOk(1) /\ PollOk(2)
        /\ m_measurements[1] # <<>>
        /\ Logged("measurement", 2) # {}

\* The worker w has polled channel c in its current cycle and is past the
\* alarm callbacks of c.
PastAlarms(w, c) ==
    /\ PastMeasurement(w, c)
    /\ ~(W(w).it = c /\ W(w).pc = "alarmCallback")

\* The messages the alarm callback received for channel c in the current
\* cycle, in the order of the calls.
AlarmMsgs(c) ==
    LET calls == SelectSeq(cycleLog, LAMBDA e : e.kind = "alarm" /\ e.channel = c)
    IN [i \in 1..Len(calls) |-> calls[i].msg]

\* C12 as stated: with an alarm callback registered, once the loop is done
\* with a polled channel, the callback received exactly the messages of
\* checkAlarms() on the channel's latest sample, whatever the poll returned.
C12_AlarmsForEveryPolledChannel ==
    \A w \in WorkerIds : \A c \in Channels :
        (PastAlarms(w, c) /\ m_alarmCallback) =>
            AlarmMsgs(c) = checkAlarms(c, m_measurements[c])

\* C12 amended: with an alarm callback registered, for every channel whose
\* poll returned true the callback receives exactly the messages of
\* checkAlarms() on the channel's latest sample, once each and in the order
\* returned; a channel whose poll returned false gets no alarm callback in
\* that cycle, whatever its latest sample holds.
C12_AlarmsPerGoodPoll ==
    \A w \in WorkerIds : \A c \in Channels :
        InCycle(w) =>
            /\ (PastAlarms(w, c) /\ m_alarmCallback /\ PollOk(c)) =>
                   AlarmMsgs(c) = checkAlarms(c, m_measurements[c])
            /\ (W(w).pc = "alarmCallback" /\ W(w).it = c /\ m_alarmCallback) =>
                   AlarmMsgs(c) \o W(w).alarms = checkAlarms(c, m_measurements[c])
            /\ (~PollOk(c) \/ ~m_alarmCallback) => AlarmMsgs(c) = <<>>

\* Two messages delivered for the first channel, in the order of checkAlarms(),
\* and the loop has moved on.
C12_Witness ==
    \E w \in WorkerIds :
        /\ PastAlarms(w, 1)
        /\ m_alarmCallback
        /\ PollOk(1)
        /\ Len(AlarmMsgs(1)) = 2
        /\ AlarmMsgs(1)[1] # AlarmMsgs(1)[2]

\* The serial line delivered nothing for the command.
NoResponse(io) == ~io.written \/ ~io.read \/ io.bytes = <<>>

\* C13: on an open port readHoldingRegisters returns an empty vector or
\* exactly regCount registers, and it returns the empty vector whenever no
\* response arrives, the response has fewer than 5 bytes, its function code
\* is not 0x03, or its byte count differs from 2 * regCount.
C13_ConnectedReadValidates ==
    Returns("readConnected") =>
        LET io == call.arg.io
            regCount == call.arg.regCount
        IN /\ (call.out = <<>> \/ Len(call.out) = regCount)
           /\ (\/ NoResponse(io)
               \/ Len(io.bytes) < 5
               \/ io.bytes[2] # READ_HOLDING_REGISTERS
               \/ io.bytes[3] # 2 * regCount) => call.out = <<>>

\* The last two bytes of the frame are the CRC-16 of the bytes before them,
\* low byte first.
ChecksumOk(frame) ==
    /\ Len(frame) >= 2
    /\ calculateCRC16(SubSeq(frame, 1, Len(frame) - 2)) =
           frame[Len(frame) - 1] + 256 * frame[Len(frame)]

\* C14: a response whose trailing checksum is not the CRC-16 of its
\* preceding bytes makes readHoldingRegisters return the empty vector.
C14_BadChecksumRejected ==
    (Returns("readConnected") /\ ~ChecksumOk(call.arg.io.bytes)) => call.out = <<>>

\* C15: createModbusReadCommand returns 8 bytes: the address, 0x03, the start
\* register high byte first, the count high byte first, and the CRC-16 of
\* these six bytes low byte first.
C15_RequestFrameLayout ==
    Returns("createModbusReadCommand") =>
        LET f == call.out
            a == call.arg
        IN /\ Len(f) = 8
           /\ \A i \in 1..8 : f[i] \in 0..255
           /\ f[1] = a.slaveAddr
           /\ f[2] = 3
           /\ f[3] * 256 + f[4] = a.regAddr
           /\ f[5] * 256 + f[6] = a.regCount
           /\ f[7] + 256 * f[8] = calculateCRC16(SubSeq(f, 1, 6))

\* A request whose start and count need both bytes and whose checksum bytes
\* differ.
C15_Witness ==
    /\ Returns("createModbusReadCommand")
    /\ call.arg.regAddr = 65535
    /\ call.arg.regCount = 125
    /\ call.out[7] # call.out[8]

(***************************************************************************)
(* The reference CRC-16 of C16: the reflected CRC-16 with polynomial       *)
(* 0xA001 and initial value 0xFFFF as a shift register fed one message bit *)
(* at a time, least significant bit of each byte first.                    *)
(***************************************************************************)
FlipBit(reg, k) ==
    IF (reg \div 2^k) % 2 = 1 THEN reg - 2^k ELSE reg + 2^k

\* One message bit: shift right, and add the polynomial (bits 15, 13 and 0)
\* when the bit shifted out differs from the message bit.
ReferenceStep(reg, bit) ==
    LET shifted == reg \div 2
    IN IF reg % 2 # bit
       THEN FlipBit(FlipBit(FlipBit(shifted, 15), 13), 0)
       ELSE shifted

\* The register after the first n bits of one message byte.
ReferenceFeed[reg \in 0..65535, byte \in 0..255, n \in 0..8] ==
    IF n = 0 THEN reg
    ELSE ReferenceStep(ReferenceFeed[reg, byte, n - 1], (byte \div 2^(n - 1)) % 2)

RECURSIVE ReferenceRegister(_, _)
ReferenceRegister(data, k) ==
    IF k = 0 THEN 65535
    ELSE ReferenceFeed[ReferenceRegister(data, k - 1), data[k], 8]

ReferenceCrc16(data) == ReferenceRegister(data, Len(data))

\* C16: calculateCRC16 returns the reference CRC-16 of its argument, a 16-bit
\* value; for the request 01 03 00 14 00 02 it returns 0x0F84 and for the
\* ASCII digits 1..9 the published check value 0x4B37.
C16_Crc16MatchesReference ==
    Returns("calculateCRC16") =>
        /\ call.out \in 0..65535
        /\ call.out = ReferenceCrc16(call.arg)
        /\ call.arg = <<1, 3, 0, 20, 0, 2>> => call.out = 3972
        /\ call.arg = <<49, 50, 51, 52, 53, 54, 55, 56, 57>> => call.out = 19255

\* The checksum of the request of the specification has been computed.
C16_Witness ==
    /\ Returns("calculateCRC16")
    /\ call.arg = <<1, 3, 0, 20, 0, 2>>
    /\ call.out = 3972

\* C17: on a closed port readHoldingRegisters returns exactly regCount
\* values, the value at index i (from 0) being (22000 + 100 * i) mod 65536;
\* the result is the same for every address and start register, and it is
\* empty only when regCount is 0.
C17_DisconnectedRamp ==
    Returns("readDisconnected") =>
        LET r == call.out
            regCount == call.arg.regCount
        IN /\ Len(r) = regCount
           /\ \A i \in 0..(regCount - 1) :
                  /\ r[i + 1] \in 0..65535
                  /\ (r[i + 1] - (22000 + 100 * i)) % 65536 = 0
           /\ (r = <<>>) <=> (regCount = 0)
           /\ \A a \in DisconnectedReadInputs :
                  a.regCount = regCount =>
                      readHoldingRegisters(FALSE, a.slaveAddr, a.regAddr, a.regCount) = {r}

\* A ramp long enough to pass 65535: index 436 holds 65600 - 65536.
C17_Witness ==
    /\ Returns("readDisconnected")
    /\ call.arg.regCount = 1000
    /\ call.out[436] = 65500
    /\ call.out[437] = 64

\* C18: initializeSerial returns true exactly when it leaves the port open;
\* after a false return isConnected() is false and readHoldingRegisters
\* returns the synthetic values of a closed port.
C18_NoHalfOpenPort ==
    Returns("initializeSerial") =>
        LET after == isConnected(call.out.m_serialHandle)
        IN /\ call.out.ret <=> after
           /\ ~call.out.ret =>
                  \A a \in DisconnectedReadInputs :
                      readHoldingRegisters(after, a.slaveAddr, a.regAddr, a.regCount) =
                          readHoldingRegisters(FALSE, a.slaveAddr, a.regAddr, a.regCount)

\* The port was opened and configuring it failed at the last step.
C18_Witness ==
    /\ Returns("initializeSerial")
    /\ call.arg.createFile /\ call.arg.getCommState /\ call.arg.setCommState
    /\ ~call.arg.setCommTimeouts
    /\ ~call.out.ret

\* C19: getLatestMeasurement() returns the sample appended last, or the
\* all-zero sample when nothing was appended.
C19_LatestIsNewest ==
    Returns("getLatestMeasurement") =>
        call.out = (IF call.arg = <<>> THEN ZeroData ELSE call.arg[Len(call.arg)])

\* More samples appended than the history holds, the last one unlike the
\* ones before it.
C19_Witness ==
    /\ Returns("getLatestMeasurement")
    /\ Len(call.arg) > MAX_MEASUREMENTS
    /\ \A i \in 1..(Len(call.arg) - 1) : call.arg[i] # call.arg[Len(call.arg)]
    /\ call.out # ZeroData

\* C20: getMeasurementHistory(n), n >= 0, on a history of length len returns
\* min(n, len) samples: the last min(n, len) samples of the history, oldest
\* first.
C20_HistoryTail ==
    Returns("getMeasurementHistory") =>
        LET h == HistoryAfter(call.arg.appended)
            r == call.out
        IN /\ Len(r) = Min(call.arg.count, Len(h))
           /\ \A k \in 1..Len(r) : r[k] = h[Len(h) - Len(r) + k]

\* A proper, non-empty tail of a full history of distinct samples.
C20_Witness ==
    /\ Returns("getMeasurementHistory")
    /\ Len(HistoryAfter(call.arg.appended)) = MAX_MEASUREMENTS
    /\ call.arg.count > 0
    /\ call.arg.count < MAX_MEASUREMENTS
    /\ call.out[1] # HistoryAfter(call.arg.appended)[1]

(***************************************************************************)
(* C21  GratingChannel::calculateCPK(parameter) returns 0 while fewer than *)
(* 10 samples are buffered, whatever the parameter name, and from 10       *)
(* samples on it is the capability index of all the buffered samples: the  *)
(* smaller of (USL - mean) and (mean - LSL) over three standard            *)
(* deviations, mean and deviation taken over the whole history.            *)
(***************************************************************************)
RECURSIVE PartialSum(_, _)
PartialSum(values, k) ==
    IF k = 0 THEN 0 ELSE Nearest(PartialSum(values, k - 1) + values[k], 1)

RECURSIVE PartialSquares(_, _, _)
PartialSquares(values, mean, k) ==
    IF k = 0 THEN 0
    ELSE Nearest(PartialSquares(values, mean, k - 1)
                    + Nearest(Nearest(values[k] - mean, 1) * Nearest(values[k] - mean, 1), 1),
                 1)

\* The capability index of values, all of them, between lsl and usl.
IndexOfAll(values, lsl, usl) ==
    LET n        == Len(values)
        mean     == Nearest(PartialSum(values, n), n)
        variance == PartialSquares(values, mean, n)
        nearer   == IF usl - mean < mean - lsl THEN usl - mean ELSE mean - lsl
    IN IF variance = 0 THEN ZeroIndex
       ELSE Quotient(Nearest(nearer, 1), 3, Sqrt(variance, n - 1))

C21_CpkOverWholeHistory ==
    Returns("GratingChannel::calculateCPK") =>
        LET h == call.arg.measurements
            p == call.arg.parameter
        IN /\ Len(h) < 10 => call.out = ZeroIndex
           /\ Len(h) >= 10 /\ p # "P2" =>
                 call.out = IndexOfAll(CollectValues(h, p), SpecLimits(p).lsl,
                                       SpecLimits(p).usl)

\* A history of eleven samples whose oldest differs from the others, with an
\* index other than 0.
C21_Witness ==
    /\ Returns("GratingChannel::calculateCPK")
    /\ Len(call.arg.measurements) = 11
    /\ call.arg.measurements[1] # call.arg.measurements[2]
    /\ \A i \in 2..11 : call.arg.measurements[i] = call.arg.measurements[2]
    /\ call.arg.parameter = "P1"
    /\ call.out # ZeroIndex

(***************************************************************************)
(* C22  For each of P1, P5U, P5L, P3, P4 and every history of at least 10  *)
(* samples, GratingChannel::calculateCPK returns what                      *)
(* QualityControl::calculateStatistics gives as cpk for the same averages  *)
(* under the default limit table; for any other name both give 0.          *)
(***************************************************************************)
C22_ChannelCpkEqualsStatisticsCpk ==
    Returns("GratingChannel::calculateCPK") /\ Len(call.arg.measurements) >= 10 =>
        LET h == call.arg.measurements
            p == call.arg.parameter
        IN IF p \in {"P1", "P5U", "P5L", "P3", "P4"}
           THEN call.out = calculateStatistics(initializeDefaultLimits,
                                               CollectValues(h, p), p).cpk
           ELSE /\ call.out = ZeroIndex
                /\ \A q \in {"P1", "P5U", "P5L", "P3", "P4"} :
                      calculateStatistics(initializeDefaultLimits,
                                          CollectValues(h, q), p).cpk = ZeroIndex

\* Ten samples, not all alike, with an index of P5L other than 0.
C22_Witness ==
    /\ Returns("GratingChannel::calculateCPK")
    /\ Len(call.arg.measurements) = 10
    /\ call.arg.parameter = "P5L"
    /\ call.arg.measurements[1] # call.arg.measurements[10]
    /\ call.out # ZeroIndex
    /\ call.out = calculateStatistics(initializeDefaultLimits,
                                     CollectValues(call.arg.measurements, "P5L"),
                                     "P5L").cpk

(***************************************************************************)
(* C23  checkAlarms() looks at the latest sample only, and there at the    *)
(* P1, P5U and P5L averages: no message for an empty history; for each of  *)
(* the three at most one message, "upper" exactly when the average is      *)
(* strictly above its upper limit (220.90, 426.10) and "lower" exactly     *)
(* when strictly below its lower limit (219.10, 423.90), none when equal   *)
(* to a limit; no message for any other parameter, none from an older      *)
(* sample; each message names the channel, the parameter and the           *)
(* direction.                                                              *)
(***************************************************************************)
MessagesAbout(out, parameter) == {i \in DOMAIN out : out[i].parameter = parameter}

HasMessage(out, channelNum, parameter, direction) ==
    \E i \in DOMAIN out : out[i] = Alarm(channelNum, parameter, direction)

C23_AlarmsFromLatestOnly ==
    Returns("checkAlarms") =>
        LET h == call.arg.measurements
            c == call.arg.channelNum
            out == call.out
            limits == [P1 |-> <<21910, 22090>>, P5U |-> <<42390, 42610>>,
                       P5L |-> <<42390, 42610>>]
            Averages(latest) == [P1 |-> latest.p1_avg, P5U |-> latest.p5u_avg,
                               P5L |-> latest.p5l_avg]
        IN IF h = <<>> THEN out = <<>>
           ELSE /\ \A i \in DOMAIN out :
                     /\ out[i].channel = c
                     /\ out[i].parameter \in {"P1", "P5U", "P5L"}
                     /\ out[i].direction \in {"upper", "lower"}
                /\ \A p \in {"P1", "P5U", "P5L"} :
                     LET v == Averages(h[Len(h)])[p]
                     IN /\ Cardinality(MessagesAbout(out, p)) <= 1
                        /\ HasMessage(out, c, p, "upper") <=> v > limits[p][2]
                        /\ HasMessage(out, c, p, "lower") <=> v < limits[p][1]

\* The latest sample has P1 at its upper limit, P5U above its upper limit,
\* P5L between its limits and P3, P4 far from nominal; the older sample is
\* out of limits everywhere: one message, about P5U.
C23_Witness ==
    /\ Returns("checkAlarms")
    /\ Len(call.arg.measurements) = 2
    /\ call.arg.measurements[1].p1_avg > 22090
    /\ call.arg.measurements[2].p1_avg = 22090
    /\ call.arg.measurements[2].p5u_avg > 42610
    /\ call.arg.measurements[2].p5l_avg = 42500
    /\ call.arg.measurements[2].p3_avg # 64500
    /\ call.out = <<Alarm(call.arg.channelNum, "P5U", "upper")>>

(***************************************************************************)
(* C24  calculateStatistics returns a standard deviation of 0 for a data   *)
(* set of one element; cpk and cp are 0 whenever the data set has fewer    *)
(* than two elements, all its elements are equal, or the parameter's USL   *)
(* equals its LSL; for an empty data set the whole snapshot is zero, with  *)
(* a sample count of 0.                                                    *)
(***************************************************************************)
AllEqual(data) == \A i, j \in DOMAIN data : data[i] = data[j]

C24_DegenerateDataGiveZero ==
    Returns("calculateStatistics") =>
        LET data   == call.arg.data
            limits == getCPKLimits(call.arg.m_cpkLimits, call.arg.parameter)
        IN /\ Len(data) = 1 => call.out.stddev = ZeroDeviation
           /\ \/ Len(data) < 2
              \/ AllEqual(data)
              \/ limits.upperSpecLimit = limits.lowerSpecLimit
              => call.out.cpk = ZeroIndex /\ call.out.cp = ZeroIndex
           /\ data = <<>> => call.out = ZeroStatistics /\ call.out.sampleCount = 0

(***************************************************************************)
(* C25  getQualityStatus(cpk) gives exactly one of four classes for every  *)
(* cpk, with inclusive thresholds: Excellent iff cpk >= 1.67, Good iff     *)
(* 1.33 <= cpk < 1.67, Acceptable iff 1.0 <= cpk < 1.33, NeedsImprovement  *)
(* iff cpk < 1.0; a larger cpk never gives a lower class.                  *)
(***************************************************************************)
Grade(status) ==
    IF status = "Excellent" THEN 3
    ELSE IF status = "Good" THEN 2
    ELSE IF status = "Acceptable" THEN 1
    ELSE 0

C25_QualityStatusThresholds ==
    Returns("getQualityStatus") =>
        LET cpk == call.arg
        IN /\ call.out \in {"Excellent", "Good", "Acceptable", "NeedsImprovement"}
           /\ call.out = "Excellent" <=> cpk >= 167
           /\ call.out = "Good" <=> 133 <= cpk /\ cpk < 167
           /\ call.out = "Acceptable" <=> 100 <= cpk /\ cpk < 133
           /\ call.out = "NeedsImprovement" <=> cpk < 100
           /\ \A larger \in CpkValues :
                 cpk <= larger => Grade(call.out) <= Grade(getQualityStatus(larger))

\* A cpk equal to the middle threshold is classed Good.
C25_Witness ==
    /\ Returns("getQualityStatus")
    /\ call.arg = 133
    /\ call.out = "Good"

\* The step ran op.
Runs(op) == call'.op = op /\ call'.done

(***************************************************************************)
(* C26  getCPKLimits for a name that was never registered returns USL 0,   *)
(* LSL 0, target 0, warning 1.33, alarm 1.0 and leaves the limit table as  *)
(* it was, without an entry for the name; calculateStatistics for such a   *)
(* name returns cpk = cp = 0 whatever the data set.                        *)
(***************************************************************************)
C26_UnregisteredLimits ==
    [][/\ Runs("getCPKLimits") /\ call'.arg.parameter \notin DOMAIN m_cpkLimits =>
            /\ call'.out = [upperSpecLimit |-> 0, lowerSpecLimit |-> 0, targetValue |-> 0,
                            warningLimit |-> 133, alarmLimit |-> 100]
            /\ m_cpkLimits' = m_cpkLimits
            /\ call'.arg.parameter \notin DOMAIN m_cpkLimits'
       /\ Runs("calculateStatistics") /\ call'.arg.parameter \notin DOMAIN m_cpkLimits =>
            /\ call'.out.cpk = ZeroIndex
            /\ call'.out.cp = ZeroIndex]_vars

\* The limits of the unregistered P2 have been asked for and then statistics
\* of P2 taken on a data set with a deviation other than 0: P2 is still
\* unregistered and cpk is 0.
C26_Witness ==
    /\ "P2" \notin DOMAIN m_cpkLimits
    /\ call.op = "calculateStatistics"
    /\ call.done
    /\ call.arg.parameter = "P2"
    /\ call.out.stddev # ZeroDeviation
    /\ call.out.cpk = ZeroIndex
    /\ call.out.cp = ZeroIndex

(***************************************************************************)
(* C27  After setCPKLimits(p, L), getCPKLimits(p) returns L, whatever was  *)
(* registered for p before; the limits of every other name are unchanged.  *)
(* P1, P5U, P5L, P3 and P4 have their default limits from construction     *)
(* until a setCPKLimits on them.                                           *)
(***************************************************************************)
DefaultLimitsOf(p) ==
    IF p = "P1"
    THEN [upperSpecLimit |-> 22090, lowerSpecLimit |-> 21910, targetValue |-> 22000,
          warningLimit |-> 133, alarmLimit |-> 100]
    ELSE IF p \in {"P5U", "P5L"}
    THEN [upperSpecLimit |-> 42610, lowerSpecLimit |-> 42390, targetValue |-> 42500,
          warningLimit |-> 133, alarmLimit |-> 100]
    ELSE IF p = "P3"
    THEN [upperSpecLimit |-> 64700, lowerSpecLimit |-> 64300, targetValue |-> 64500,
          warningLimit |-> 133, alarmLimit |-> 100]
    ELSE [upperSpecLimit |-> 150, lowerSpecLimit |-> 50, targetValue |-> 100,
          warningLimit |-> 133, alarmLimit |-> 100]

C27_LatestLimitsWin ==
    /\ \A p \in {"P1", "P5U", "P5L", "P3", "P4"} :
          getCPKLimits(m_cpkLimits, p) = DefaultLimitsOf(p)
    /\ [][/\ Runs("setCPKLimits") =>
               /\ getCPKLimits(m_cpkLimits', call'.arg.parameter) = call'.arg.limits
               /\ \A q \in (DOMAIN m_cpkLimits \cup DOMAIN m_cpkLimits' \cup ParameterNames)
                              \ {call'.arg.parameter} :
                     /\ q \in DOMAIN m_cpkLimits' <=> q \in DOMAIN m_cpkLimits
                     /\ getCPKLimits(m_cpkLimits', q) = getCPKLimits(m_cpkLimits, q)
          /\ ~Runs("setCPKLimits") => m_cpkLimits' = m_cpkLimits]_vars

\* P1 has been given limits twice and holds the later ones, P5U still its
\* defaults.
C27_Witness ==
    /\ call.op = "setCPKLimits"
    /\ call.done
    /\ call.arg.parameter = "P1"
    /\ call.arg.limits.warningLimit = 150
    /\ m_cpkLimits["P1"] = call.arg.limits
    /\ "P2" \in DOMAIN m_cpkLimits
    /\ m_cpkLimits["P2"] # call.arg.limits
    /\ m_cpkLimits["P5U"] = DefaultLimitsOf("P5U")

(***************************************************************************)
(* C28  After updateStatistics(c, p, d), getChannelStatistics(c, p) is     *)
(* calculateStatistics(d, p), whatever snapshot the key held; every other  *)
(* key keeps its snapshot or its absence.  getChannelStatistics of a key   *)
(* that was never updated returns the all-zero snapshot and creates no     *)
(* entry.                                                                  *)
(***************************************************************************)
Cached(statistics, c, p) ==
    c \in DOMAIN statistics /\ p \in DOMAIN statistics[c]

C28_StatisticsCache ==
    [][/\ Runs("updateStatistics") =>
            LET c == call'.arg.channelNum
                p == call'.arg.parameter
            IN /\ Cached(m_channelStatistics', c, p)
               /\ getChannelStatistics(m_channelStatistics', c, p)
                     = calculateStatistics(m_cpkLimits, call'.arg.data, p)
               /\ \A c2 \in QcChannels, p2 \in QcParameters :
                     <<c2, p2>> # <<c, p>> =>
                        /\ Cached(m_channelStatistics', c2, p2)
                              <=> Cached(m_channelStatistics, c2, p2)
                        /\ getChannelStatistics(m_channelStatistics', c2, p2)
                              = getChannelStatistics(m_channelStatistics, c2, p2)
       /\ Runs("getChannelStatistics") =>
            /\ m_channelStatistics' = m_channelStatistics
            /\ ~Cached(m_channelStatistics, call'.arg.channelNum, call'.arg.parameter)
                  => call'.out = ZeroStatistics
            /\ Cached(m_channelStatistics, call'.arg.channelNum, call'.arg.parameter)
                  => call'.out = m_channelStatistics[call'.arg.channelNum][call'.arg.parameter]
       /\ ~Runs("updateStatistics") => m_channelStatistics' = m_channelStatistics]_vars

\* The snapshot of (1, P1) has been replaced by that of a data set of two
\* values while (1, P2) holds a snapshot and (2, P1) holds none.
C28_Witness ==
    /\ call.op = "updateStatistics"
    /\ call.done
    /\ call.arg.channelNum = 1
    /\ call.arg.parameter = "P1"
    /\ Len(call.arg.data) = 2
    /\ Cached(m_channelStatistics, 1, "P1")
    /\ m_channelStatistics[1]["P1"].sampleCount = 2
    /\ m_channelStatistics[1]["P1"].cpk # ZeroIndex
    /\ Cached(m_channelStatistics, 1, "P2")
    /\ ~Cached(m_channelStatistics, 2, "P1")

(***************************************************************************)
(* C29  initialize() returns true exactly when at least one channel was    *)
(* constructed, whether or not the serial port could be opened; a channel  *)
(* whose configuration cannot be loaded is left out of the channel set and *)
(* the other channels are constructed all the same.                        *)
(***************************************************************************)
C29_InitializeByChannels ==
    Returns("initialize") =>
        /\ call.out.ret <=> call.out.m_channels # {}
        /\ \A i \in Channels : i \in call.out.m_channels <=> i \notin call.arg.throwing
        /\ \A api \in SerialApi :
              /\ initializeFrom(api, call.arg.throwing).ret = call.out.ret
              /\ initializeFrom(api, call.arg.throwing).m_channels = call.out.m_channels

\* The port could not be opened and the first channel's configuration
\* failed to load: the channels after it are there and the result is true.
C29_Witness ==
    /\ Returns("initialize")
    /\ ~call.out.connected
    /\ call.arg.throwing = {1}
    /\ call.out.m_channels = Channels \ {1}
    /\ call.out.m_channels # {}
    /\ call.out.ret

(***************************************************************************)
(* C30  While the orchestrator runs, at most one register-read request is  *)
(* outstanding on the serial line: a request frame is written only when    *)
(* every earlier request has had its response read, or its read has        *)
(* failed, between the two reads of a channel and from one channel to the  *)
(* next.                                                                   *)
(***************************************************************************)
\* The workers whose request is written and not yet answered.
Outstanding == {w \in WorkerIds : workers[w].pc \in Awaiting}

\* Worker w writes a request frame in this step.
WritesRequest(w) == workers'[w].pc \in Awaiting /\ workers'[w].pc # workers[w].pc

C30_OneRequestOutstanding ==
    /\ [](Cardinality(Outstanding) <= 1)
    /\ [][\A w \in WorkerIds : WritesRequest(w) => Outstanding = {}]_vars

\* The worker has polled the first channel and has the request for the right
\* block of the second channel on the line, the left block being answered.
C30_Witness ==
    /\ m_running
    /\ \E w \in WorkerIds :
          /\ workers[w].pc = "awaitRight"
          /\ workers[w].it = 2
          /\ workers[w].leftData # <<>>
          /\ Outstanding = {w}
    /\ m_measurements[1] # <<>>

(***************************************************************************)
(* A monitoring thread that calls the const operations of a channel        *)
(* (GratingChannel.h lines 318-322) while the orchestrator runs; call      *)
(* holds the operation it called last and what it returned.                *)
(***************************************************************************)
Monitored(op, out) ==
    /\ call' = [op |-> op, out |-> out, done |-> TRUE]
    /\ UNCHANGED <<objectVars, qualityVars, configVars, m_measurements, callbackVars, threadVars, ctl,
                   clock, cycleLog, reader>>

\* Variant of MonitorLatest that takes the newest sample out of the history.
MonitorLatest_Take ==
    \E c \in m_channels :
        /\ m_measurements[c] # <<>>
        /\ call' = [op |-> "getLatestMeasurement",
                    out |-> getLatestMeasurement(m_measurements[c]), done |-> TRUE]
        /\ m_measurements' = [m_measurements EXCEPT ![c] = SubSeq(@, 1, Len(@) - 1)]
        /\ UNCHANGED <<objectVars, qualityVars, configVars, callbackVars, threadVars, ctl,
                       clock, cycleLog, reader>>

MonitorLatest ==
    \E c \in m_channels :
        Monitored("getLatestMeasurement", getLatestMeasurement(m_measurements[c]))

MonitorHistory ==
    \E c \in m_channels, count \in 0..(MAX_MEASUREMENTS + 1) :
        Monitored("getMeasurementHistory", getMeasurementHistory(m_measurements[c], count))

MonitorCPK ==
    \E c \in m_channels, parameter \in ParameterNames :
        Monitored("calculateCPK", GratingChannel_calculateCPK(m_measurements[c], parameter))

MonitorAlarms ==
    \E c \in m_channels : Monitored("checkAlarms", checkAlarms(c, m_measurements[c]))

NextMonitor ==
    \/ Next
    \/ MonitorLatest
    \/ MonitorHistory
    \/ MonitorCPK
    \/ MonitorAlarms

SpecMonitor == Init /\ [][NextMonitor]_vars

(***************************************************************************)
(* Two threads calling startMeasurement() at the same time (lines 48-54).  *)
(* m_running is a std::atomic<bool>: its load in the test of line 50 and   *)
(* its store in line 51 are two operations, each atomic.  starters[t] is   *)
(* the position of thread t: "idle" before the call, "set" past the test,  *)
(* "spawn" past the store, "started" or "skipped" after the return, and    *)
(* "terminate" when the assignment of line 52 found the handle joinable    *)
(* (std::thread::operator= then calls std::terminate).  Two assignments    *)
(* that overlap are a data race on the handle; the model takes them one    *)
(* after the other, which is the outcome every build can produce.          *)
(***************************************************************************)
\* std::terminate has been called: the process, with all its threads, is
\* gone.
Terminated == \E t \in Starters : starters[t] = "terminate"

\* Line 50: if (!m_running).
StartTest(t) ==
    /\ ~Terminated
    /\ starters[t] = "idle"
    /\ starters' = [starters EXCEPT ![t] = IF ~m_running THEN "set" ELSE "skipped"]
    /\ UNCHANGED <<released, qualityVars, configVars, m_measurements, callbackVars,
                   threadVars, ctl, clock, cycleLog, reader, call>>

\* Line 51: m_running = true.
StartSet(t) ==
    /\ ~Terminated
    /\ starters[t] = "set"
    /\ m_running' = TRUE
    /\ starters' = [starters EXCEPT ![t] = "spawn"]
    /\ UNCHANGED <<released, qualityVars, configVars, m_measurements, callbackVars,
                   m_measurementThread, workers, ctl, clock, cycleLog, reader, call>>

\* Line 52: the new thread is created, then assigned to the handle; the
\* assignment to a handle that is joinable ends the process.
StartSpawn(t) ==
    /\ ~Terminated
    /\ starters[t] = "spawn"
    /\ IF m_measurementThread.joinable
       THEN /\ workers' = [w \in WorkerIds |-> NoWorker]
            /\ m_measurementThread' = m_measurementThread
            /\ starters' = [starters EXCEPT ![t] = "terminate"]
       ELSE \E w \in WorkerIds :
               /\ workers[w].pc = "none"
               /\ \A v \in WorkerIds : v < w => workers[v].pc # "none"
               /\ workers' = [workers EXCEPT ![w] = [NoWorker EXCEPT !.pc = "loopTop"]]
               /\ m_measurementThread' = [id |-> w, joinable |-> TRUE]
               /\ starters' = [starters EXCEPT ![t] = "started"]
    /\ UNCHANGED <<released, qualityVars, configVars, m_measurements, callbackVars,
                   m_running, ctl, clock, cycleLog, reader, call>>

NextStarters ==
    \/ initialize
    \/ \E t \in Starters : StartTest(t)
    \/ \E t \in Starters : StartSet(t)
    \/ \E t \in Starters : StartSpawn(t)
    \/ \E w \in WorkerIds : measurementLoop(w)

SpecStarters == Init /\ [][NextStarters]_vars

(***************************************************************************)
(* DataAcquisition::~DataAcquisition (lines 11-21), run by the controlling *)
(* thread: stopMeasurement(), then delete of every channel, clear() of the *)
(* map and delete of the communication manager.  ctl.joined tells whether  *)
(* the destructor's stopMeasurement() found the flag set and joined the    *)
(* worker.                                                                 *)
(***************************************************************************)
\* Variant of DestroyStop that clears the flag and goes on without join().
DestroyStop_NoJoin ==
    /\ ctl.pc = "ready"
    /\ m_running' = FALSE
    /\ ctl' = [pc |-> "delete", joined |-> FALSE]
    /\ UNCHANGED <<objectVars, qualityVars, configVars, m_measurements, callbackVars,
                   m_measurementThread, workers, clock, cycleLog, reader, call>>

\* Line 13: stopMeasurement(), lines 58-60.
DestroyStop ==
    /\ ctl.pc = "ready"
    /\ IF m_running
       THEN /\ m_running' = FALSE
            /\ IF m_measurementThread.joinable
               THEN ctl' = [pc |-> "joinLast"]
               ELSE ctl' = [pc |-> "delete", joined |-> FALSE]
       ELSE /\ m_running' = m_running
            /\ ctl' = [pc |-> "delete", joined |-> FALSE]
    /\ UNCHANGED <<objectVars, qualityVars, configVars, m_measurements, callbackVars,
                   m_measurementThread, workers, clock, cycleLog, reader, call>>

\* Line 13: stopMeasurement(), line 61: join() returns when the worker has
\* left measurementLoop.
DestroyJoin ==
    /\ ctl.pc = "joinLast"
    /\ workers[m_measurementThread.id].pc = "exited"
    /\ workers' = [workers EXCEPT ![m_measurementThread.id] = NoWorker]
    /\ m_measurementThread' = [m_measurementThread EXCEPT !.joinable = FALSE]
    /\ ctl' = [pc |-> "delete", joined |-> TRUE]
    /\ UNCHANGED <<objectVars, qualityVars, configVars, m_measurements, callbackVars,
                   m_running, clock, cycleLog, reader, call>>

\* Lines 15-17: delete pair.second, one channel per step, in key order.
DeleteChannel ==
    /\ ctl.pc = "delete"
    /\ \E c \in m_channels \ released.channels :
          /\ \A k \in m_channels \ released.channels : c <= k
          /\ released' = [released EXCEPT !.channels = @ \cup {c}]
    /\ UNCHANGED <<starters, qualityVars, configVars, m_measurements, callbackVars,
                   threadVars, ctl, clock, cycleLog, reader, call>>

\* Lines 18-20: m_channels.clear(); delete m_commManager.
DeleteCommManager ==
    /\ ctl.pc = "delete"
    /\ m_channels \subseteq released.channels
    /\ m_channels' = {}
    /\ released' = [released EXCEPT !.m_commManager = TRUE]
    /\ ctl' = [pc |-> "destroyed", joined |-> ctl.joined]
    /\ UNCHANGED <<starters, qualityVars, initialized, connected, m_measurementInterval,
                   m_measurements, callbackVars, threadVars, clock, cycleLog, reader, call>>

NextDestroy ==
    \/ Next
    \/ DestroyStop
    \/ DestroyJoin
    \/ DeleteChannel
    \/ DeleteCommManager

SpecDestroy == Init /\ [][NextDestroy]_vars

(***************************************************************************)
(* C31  A stopMeasurement() called by the controlling thread while the     *)
(* orchestrator runs eventually returns, and the state is then Idle: the   *)
(* worker, whose register reads, callbacks and sleep all return, sees the  *)
(* cleared flag, leaves measurementLoop, and join() returns.               *)
(***************************************************************************)
\* stopMeasurement() has cleared the flag and waits in join().
Stopping == ctl.pc = "join"

C31_StopReturns == Stopping ~> Idle

\* stopMeasurement() waits for a worker that is inside a poll cycle, asleep
\* or between two channels.
C31_Witness ==
    /\ Stopping
    /\ \E w \in WorkerIds : workers[w].pc \in {"sleep", "readGratingData", "measurementCallback"}

(***************************************************************************)
(* C40  The checksum of a request frame is appended in the order a         *)
(* receiver expects: calculateCRC16 over all 8 bytes of a frame built by   *)
(* createModbusReadCommand (the six header bytes, then the CRC low byte,   *)
(* then the CRC high byte) is 0.                                           *)
(***************************************************************************)
C40_FrameResidueZero ==
    Returns("createModbusReadCommand") =>
        /\ Len(call.out) = 8
        /\ calculateCRC16(call.out) = 0

\* The request 01 03 00 14 00 02 has been framed with its checksum 0x0F84
\* as 84 0F.
C40_Witness ==
    /\ Returns("createModbusReadCommand")
    /\ call.arg = [slaveAddr |-> 1, regAddr |-> 20, regCount |-> 2]
    /\ call.out = <<1, 3, 0, 20, 0, 2, 132, 15>>
    /\ calculateCRC16(call.out) = 0

(***************************************************************************)
(* C36  While decoding, readHoldingRegisters reads only bytes of the       *)
(* response it received: whenever the decoding loop has run (the result    *)
(* is not empty), the positions 3 + 2i and 4 + 2i of every register index  *)
(* i it decoded are smaller than the response length.                      *)
(***************************************************************************)
\* The byte positions the decoding loop indexes for count registers.
DecodedPositions(count) == UNION {{3 + i * 2, 4 + i * 2} : i \in 0..(count - 1)}

C36_DecodeStaysInsideResponse ==
    (Returns("readConnected") /\ call.out # <<>>) =>
        \A k \in DecodedPositions(Len(call.out)) : k < Len(call.arg.io.bytes)

(***************************************************************************)
(* C32  A readGratingData() call on a connected transport issues exactly   *)
(* two register reads, the left descriptor's and then the right            *)
(* descriptor's, the right one also when the left block came back empty;   *)
(* a call on a disconnected transport issues none and goes straight to     *)
(* the append.                                                             *)
(***************************************************************************)
\* Worker w moves from position from to position to in this step.
Moves(w, from, to) == workers[w].pc = from /\ workers'[w].pc = to

\* Worker w completes the register read of the left (right) descriptor.
LeftRead(w) == Moves(w, "readLeft", "readRight")
RightRead(w) == Moves(w, "readRight", "decode")

C32_TwoReadsLeftThenRight ==
    [][\A w \in WorkerIds :
          workers'[w].pc # workers[w].pc =>
              /\ workers[w].pc = "readGratingData" =>
                     IF connected THEN workers'[w].pc = "readLeft"
                     ELSE workers'[w].pc = "push_back"
              /\ workers'[w].pc = "readLeft" =>
                     workers[w].pc = "readGratingData" /\ connected
              /\ workers[w].pc = "readLeft" => LeftRead(w)
              /\ workers'[w].pc = "readRight" => LeftRead(w)
              /\ workers[w].pc = "readRight" => RightRead(w)
              /\ workers'[w].pc = "decode" => RightRead(w)
              /\ workers[w].pc = "decode" => workers'[w].pc \in {"push_back", "returned"}
              /\ workers'[w].pc = "push_back" =>
                     \/ workers[w].pc = "decode"
                     \/ workers[w].pc = "readGratingData" /\ ~connected]_vars

\* Connected: both reads are done, the left block came back empty and the
\* right block holds data.
C32_Witness ==
    /\ connected
    /\ \E w \in WorkerIds :
          /\ workers[w].pc = "decode"
          /\ workers[w].leftData = <<>>
          /\ workers[w].rightData # <<>>

(***************************************************************************)
(* C33  No error state persists in a channel.  A readGratingData() call    *)
(* that returns false leaves the history as it was at entry; and whenever  *)
(* both register reads of a call are non-empty the call appends one sample *)
(* and returns true, in every reachable state and so after any number of   *)
(* failed calls.                                                           *)
(***************************************************************************)
\* The history at entry with sample d appended, the oldest sample evicted
\* when the history was full.
AppendedTo(entry, d) ==
    IF Len(entry) = MAX_MEASUREMENTS THEN Append(Tail(entry), d) ELSE Append(entry, d)

\* The current cycle logged a failed poll.
FailedPolls == {i \in 1..Len(cycleLog) : cycleLog[i].kind = "poll" /\ ~cycleLog[i].ok}

C33_NoErrorStatePersists ==
    \A w \in WorkerIds :
        W(w).pc = "returned" =>
            /\ ~W(w).ok => m_measurements[W(w).it] = W(w).entry
            /\ (connected /\ W(w).leftData # <<>> /\ W(w).rightData # <<>>) =>
                   /\ W(w).ok
                   /\ m_measurements[W(w).it] = AppendedTo(W(w).entry, W(w).data)

\* A call with both blocks read has appended its sample to a history that
\* held samples already, after a failed poll earlier in the same cycle.
C33_Witness ==
    /\ connected
    /\ FailedPolls # {}
    /\ \E w \in WorkerIds :
          /\ W(w).pc = "returned"
          /\ W(w).ok
          /\ W(w).leftData # <<>> /\ W(w).rightData # <<>>
          /\ W(w).entry # <<>>
          /\ m_measurements[W(w).it] = AppendedTo(W(w).entry, W(w).data)

(***************************************************************************)
(* C34  Only readGratingData() changes a channel's history.  The history   *)
(* of a channel changes only in the push_back and erase steps of a         *)
(* readGratingData() call on that channel; getLatestMeasurement,           *)
(* getMeasurementHistory, calculateCPK and checkAlarms, called from the    *)
(* worker or from another thread, leave every history as it is, and so do  *)
(* initialize, the callback setters, startMeasurement and stopMeasurement. *)
(***************************************************************************)
\* Worker w appends to or evicts from the history of channel c in this step.
WritesHistory(w, c) ==
    /\ workers[w].it = c
    /\ Moves(w, "push_back", "erase") \/ Moves(w, "erase", "returned")

C34_OnlyPollChangesHistory ==
    [][/\ \A c \in Channels :
              m_measurements'[c] # m_measurements[c] =>
                  \E w \in WorkerIds : WritesHistory(w, c)
       /\ (call' # call \/ ctl' # ctl) => m_measurements' = m_measurements]_vars

\* A monitoring thread has read the alarms of a channel whose history holds
\* samples, while a worker is inside readGratingData() on that channel.
C34_Witness ==
    /\ call.op = "checkAlarms"
    /\ call.out # <<>>
    /\ \E w \in WorkerIds :
          /\ workers[w].pc = "erase"
          /\ Len(m_measurements[workers[w].it]) > 1

(***************************************************************************)
(* C35  After the channels of a cycle are visited the worker sleeps only   *)
(* when the elapsed time of this cycle is below the interval, and then for *)
(* the interval less this elapsed time; with the elapsed time equal to or  *)
(* above the interval the next cycle starts at once.  The sleep depends on *)
(* the elapsed time of its own cycle only, so a cycle that overran does    *)
(* not shorten a later sleep.                                              *)
(***************************************************************************)
C35_SleepOnlyBelowInterval ==
    [][\A w \in WorkerIds :
          /\ (workers[w].pc = "pace" /\ workers'[w].pc # "pace") =>
                 LET elapsed == workers'[w].elapsed
                 IN /\ elapsed \in ElapsedValues
                    /\ IF elapsed < m_measurementInterval
                       THEN /\ workers'[w].pc = "sleep"
                            /\ workers'[w].sleepFor = m_measurementInterval - elapsed
                       ELSE workers'[w].pc = "loopTop"
          /\ (workers'[w].pc = "sleep" /\ workers[w].pc # "sleep") =>
                 workers[w].pc = "pace"]_vars

\* The cycle took longer than the interval and the worker stands at the loop
\* test without having slept, every channel polled.
C35_Witness ==
    /\ m_running
    /\ Polled = m_channels /\ Polled # {}
    /\ \E w \in WorkerIds :
          /\ workers[w].pc = "loopTop"
          /\ workers[w].elapsed > m_measurementInterval
          /\ workers[w].sleepFor = 0

(***************************************************************************)
(* C39  stopMeasurement() followed by startMeasurement() leaves every      *)
(* channel's history unchanged.  From the moment no worker is between the  *)
(* push_back and the erase of a readGratingData() call, through the stop,  *)
(* the join, the start and the creation of the new worker, up to the next  *)
(* push_back, no step changes a history; the new worker's first call on a  *)
(* channel finds the samples buffered before the stop, in their order, and *)
(* appends its sample after them.                                          *)
(***************************************************************************)
\* Worker w is inside readGratingData() and has not appended yet.
BeforeAppend(w) ==
    workers[w].pc \in {"readGratingData", "readLeft", "readRight", "decode", "push_back"}

C39_HistoryKeptAcrossRestart ==
    /\ [](\A w \in WorkerIds :
             /\ BeforeAppend(w) => workers[w].entry = m_measurements[workers[w].it]
             /\ workers[w].pc = "erase" =>
                    m_measurements[workers[w].it] = Append(workers[w].entry, workers[w].data))
    /\ [][(\A w \in WorkerIds : workers[w].pc \notin {"push_back", "erase"}) =>
              m_measurements' = m_measurements]_vars

\* Polling resumes: the orchestrator runs again, its new worker stands at
\* the loop test, the log still shows the cycle the stop cut short, and a
\* history holds the two samples buffered before the stop, oldest first.
C39_Witness ==
    /\ m_running
    /\ ctl.pc = "ready"
    /\ Polled # {} /\ Polled # m_channels
    /\ \E w \in WorkerIds : workers[w].pc = "loopTop"
    /\ \E c \in m_channels :
          /\ Len(m_measurements[c]) = 2
          /\ m_measurements[c][1].timestamp < m_measurements[c][2].timestamp

(***************************************************************************)
(* C37  When two threads call startMeasurement() at the same time on an    *)
(* idle orchestrator, at most one of them passes the test of the running   *)
(* flag, one worker is created and the handle is assigned once.            *)
(***************************************************************************)
\* The callers that found the flag clear.
PassedTest == {t \in Starters : starters[t] \in {"set", "spawn", "started", "terminate"}}

C37_OneCallerStarts ==
    /\ Cardinality(PassedTest) <= 1
    /\ ~Terminated

(***************************************************************************)
(* C38  When the orchestrator is destroyed while it runs, the worker has   *)
(* left measurementLoop before a channel or the communication manager is   *)
(* deleted: while anything is deleted no worker is alive, so no worker     *)
(* polls a deleted channel or reads through the deleted manager.           *)
(***************************************************************************)
\* Worker w is inside the body of the channel loop, using channel it and,
\* through it, the communication manager.
UsesChannel(w) == workers[w].pc \notin {"none", "exited", "loopTop", "pace", "sleep"}

C38_WorkerGoneBeforeRelease ==
    /\ released # NothingReleased => LiveWorkers = {}
    /\ \A w \in WorkerIds :
          UsesChannel(w) => workers[w].it \notin released.channels /\ ~released.m_commManager

\* The destructor found the orchestrator running, joined the worker, which
\* had polled, and has deleted every channel and the communication manager.
C38_Witness ==
    /\ ctl.pc = "destroyed"
    /\ ctl.joined
    /\ released.m_commManager
    /\ released.channels = Channels
    /\ \E c \in Channels : m_measurements[c] # <<>>

====
